---------------------------- MODULE Spec2Model ----------------------------
(***************************************************************************)
(* Model of the stack trace builder of the distaff VM                      *)
(* (src/src/stark/trace/stack.rs): `execute` and the StackTrace            *)
(* operations it dispatches to.                                            *)
(*                                                                         *)
(* Rows and columns are 0-based as in the source: a column is a function   *)
(* 0..trace_length-1 -> field element, the register file is a sequence of  *)
(* columns (column j of the source is element j+1 of the sequence).        *)
(***************************************************************************)
EXTENDS Integers, Sequences, FiniteSets

\* ------------------------------------------------------------------------
\* Bounds of the model
\* ------------------------------------------------------------------------
\* longest program considered
MaxProgramLen == 4
\* longest secret input sequence (secret_a and secret_b each)
MaxSecretLen == 2
\* input values are drawn from 0..MaxInputValue
MaxInputValue == 2
\* extension factors 0..MaxExtensionFactor are tried by the validation
MaxExtensionFactor == 4

\* ------------------------------------------------------------------------
\* Program constants
\* ------------------------------------------------------------------------
\* The prime field the builder is instantiated with (T: FiniteField).  The
\* builder is generic in the field; the model instantiates it with a small
\* prime field that still holds every opcode identity.
FieldModulus == 29

AUX_WIDTH == 2
MIN_STACK_DEPTH == 10
\* imported from crate::stark; any value >= MIN_STACK_DEPTH is consistent
\* with the builder, the model uses a small one
MAX_STACK_DEPTH == 11
HASH_STATE_WIDTH == 6
\* the extension factor the builder's tests run with
EXTENSION_FACTOR == 16

MIN_USER_STACK_DEPTH == MIN_STACK_DEPTH - AUX_WIDTH
MAX_USER_STACK_DEPTH == MAX_STACK_DEPTH - AUX_WIDTH

\* Opcode identities (crate::processor::opcodes): fixed small integers.
NOOP == 0
BEGIN == 1
ASSERT == 2
PUSH == 3
READ == 4
READ2 == 5
DUP == 6
DUP2 == 7
DUP4 == 8
PAD2 == 9
DROP == 10
DROP4 == 11
SWAP == 12
SWAP2 == 13
SWAP4 == 14
ROLL4 == 15
ROLL8 == 16
OP_CHOOSE == 17
CHOOSE2 == 18
ADD == 19
MUL == 20
INV == 21
NEG == 22
NOT == 23
EQ == 24
CMP == 25
HASHR == 26

SupportedOps == NOOP..HASHR

\* ------------------------------------------------------------------------
\* Field arithmetic (trait FiniteField)
\* ------------------------------------------------------------------------
Field == 0..(FieldModulus - 1)
ZERO == 0
ONE == 1

f_add(x, y) == (x + y) % FieldModulus
f_sub(x, y) == (x + FieldModulus - y) % FieldModulus
f_mul(x, y) == (x * y) % FieldModulus
f_neg(x) == (FieldModulus - x) % FieldModulus

RECURSIVE f_exp(_, _)
f_exp(b, e) ==
    IF e = 0 THEN ONE
    ELSE LET h == f_exp(b, e \div 2)
             sq == f_mul(h, h)
         IN IF e % 2 = 1 THEN f_mul(sq, b) ELSE sq

\* multiplicative inverse by Fermat: x^(p-2); inv(0) = 0
f_inv(x) == f_exp(x, FieldModulus - 2)

from_usize(n) == n % FieldModulus
as_u8(x) == x % 256

\* ------------------------------------------------------------------------
\* Hasher::apply_round: one round of the sponge permutation on a state of
\* HASH_STATE_WIDTH elements: add a round constant, cube, mix.
\* ------------------------------------------------------------------------
RoundConstant(step, k) == from_usize(step * HASH_STATE_WIDTH + k + 1)

Cube(x) == f_mul(x, f_mul(x, x))

RECURSIVE SumSeq(_)
SumSeq(q) == IF q = <<>> THEN ZERO ELSE f_add(Head(q), SumSeq(Tail(q)))

apply_round(state, step) ==
    LET sboxed == [k \in 1..Len(state) |->
                      Cube(f_add(state[k], RoundConstant(step, k - 1)))]
        total == SumSeq(sboxed)
    IN [k \in 1..Len(state) |-> f_add(total, f_mul(from_usize(k), sboxed[k]))]

\* ------------------------------------------------------------------------
\* Helpers standing for the Rust standard library
\* ------------------------------------------------------------------------
RECURSIVE is_power_of_two(_)
is_power_of_two(n) ==
    /\ n >= 1
    /\ \/ n = 1
       \/ (n % 2 = 0 /\ is_power_of_two(n \div 2))

Reverse(q) == [k \in 1..Len(q) |-> q[Len(q) + 1 - k]]

Max(a, b) == IF a >= b THEN a ELSE b
Min(a, b) == IF a <= b THEN a ELSE b

\* filled_vector(length, capacity, value): a column of `length` cells
filled_vector(length, value) == [r \in 0..(length - 1) |-> value]

\* ------------------------------------------------------------------------
\* Failures (panics) of the builder
\* ------------------------------------------------------------------------
Ok == "ok"
StackUnderflow == "stack underflow"
StackOverflow == "stack overflow"
MissingSecretInput == "ran out of secret inputs"
ExtraSecretInputs == "not all secret inputs have been consumed"
NonBinary == "non-binary value"
DivisionByZero == "multiplicative inverse of 0 is undefined"
AssertFailed == "ASSERT failed"
Unsupported == "operation is not supported"
IndexOutOfBounds == "index out of bounds"
BadLength == "program length must be greater than 1"
BadLengthPow2 == "program length must be a power of 2"
BadFirst == "first operation of a program must be BEGIN"
BadLast == "last operation of a program must be NOOP"
BadExtension == "trace extension factor must be a power of 2"

\* ------------------------------------------------------------------------
\* State
\* ------------------------------------------------------------------------
VARIABLES
    program,            \* input: the program, a sequence of field elements
    extension_factor,   \* input
    public_inputs,      \* input: inputs.get_public_inputs()
    secret_a,           \* input: inputs.get_secret_inputs()[0], as supplied
    secret_b,           \* input: inputs.get_secret_inputs()[1], as supplied
    aux_registers,      \* StackTrace.aux_registers
    user_registers,     \* StackTrace.user_registers
    secret_inputs_a,    \* StackTrace.secret_inputs_a (reversed, popped at the end)
    secret_inputs_b,    \* StackTrace.secret_inputs_b
    max_depth,          \* StackTrace.max_depth
    depth,              \* StackTrace.depth
    i,                  \* the loop index of execute
    pc,                 \* "validate", "run", "done" (returned) or "abort" (panicked)
    error,              \* the failure execute aborted with, Ok otherwise
    registers,          \* the value execute returns
    executed,           \* history: the operation executed at each cycle so far
    depth_at,           \* history: the depth recorded with each row written so far
    current,            \* flow constraints: the TraceState of the current row
    next,               \* flow constraints: the TraceState of the next row
    result,             \* flow constraints: the evaluation vector (&mut [u128])
    op_flag,            \* flow constraints: the flag of the operation
    evaluated,          \* flow constraints: "", or the evaluator that has run
    coefficients,       \* constraint poly: the vector handed to ConstraintPoly::new
    debug,              \* constraint poly: the build has debug assertions
    poly,               \* constraint poly: ConstraintPoly.poly
    z,                  \* constraint poly: the point of eval_at and merge_into
    cc,                 \* constraint poly: cc.constraints
    composition,        \* constraint poly: the `result` buffer of merge_into
    twiddles,           \* constraint poly: twiddles.len() of eval
    returned,           \* constraint poly: the value the last method returned
    called              \* constraint poly: "", the last method, or "panic"

\* the state of the trace builder, and of a flow constraint evaluation
trace == <<program, extension_factor, public_inputs, secret_a, secret_b,
           aux_registers, user_registers, secret_inputs_a, secret_inputs_b,
           max_depth, depth, i, pc, error, registers, executed, depth_at>>

flow == <<current, next, result, op_flag, evaluated>>

deep == <<coefficients, debug, poly, z, cc, composition, twiddles, returned,
          called>>

vars == <<trace, flow, deep>>

inputs == <<program, extension_factor, public_inputs, secret_a, secret_b>>

trace_length == Len(program)

\* program[k] of the source (0-based)
Slot(k) == program[k + 1]

\* ------------------------------------------------------------------------
\* StackTrace as a value: the operations below map a StackTrace to the
\* StackTrace they leave, `err` telling whether they panicked.
\* ------------------------------------------------------------------------
Stack ==
    [ aux_registers   |-> aux_registers,
      user_registers  |-> user_registers,
      secret_inputs_a |-> secret_inputs_a,
      secret_inputs_b |-> secret_inputs_b,
      max_depth       |-> max_depth,
      depth           |-> depth,
      err             |-> Ok ]

Fail(s, e) == IF s.err # Ok THEN s ELSE [s EXCEPT !.err = e]

\* self.user_registers[j][row]
U(s, j, row) == s.user_registers[j + 1][row]

\* self.user_registers[j][row] = v
SetUser(s, j, row, v) ==
    IF s.err # Ok THEN s
    ELSE IF j >= Len(s.user_registers) \/ row >= trace_length
         THEN Fail(s, IndexOutOfBounds)
         ELSE [s EXCEPT !.user_registers[j + 1][row] = v]

\* self.aux_registers[j][row] = v
SetAux(s, j, row, v) ==
    IF s.err # Ok THEN s
    ELSE IF j >= Len(s.aux_registers) \/ row >= trace_length
         THEN Fail(s, IndexOutOfBounds)
         ELSE [s EXCEPT !.aux_registers[j + 1][row] = v]

\* ------------------------------------------------------------------------
\* Helper methods of StackTrace
\* ------------------------------------------------------------------------
\* for i in start..self.depth { user[i][step + 1] = user[i][step] }
copy_state(s, step, start) ==
    IF s.err # Ok \/ start >= s.depth THEN s
    ELSE IF s.depth > Len(s.user_registers) \/ step + 1 >= trace_length
         THEN Fail(s, IndexOutOfBounds)
         ELSE LET ur == s.user_registers
              IN [s EXCEPT !.user_registers =
                     [j \in 1..Len(ur) |->
                         IF j - 1 >= start /\ j - 1 < s.depth
                         THEN [ur[j] EXCEPT ![step + 1] = ur[j][step]]
                         ELSE ur[j]]]

\* shift_left that copies the values without moving them
shift_left_in_place(s, step, start, pos_count) ==
    IF s.err # Ok THEN s
    ELSE IF s.depth < pos_count THEN Fail(s, StackUnderflow)
    ELSE [copy_state(s, step, start) EXCEPT !.depth = s.depth - pos_count]

\* Values left-shifted by pos_count from column `start` on, the pos_count
\* columns below the new depth zeroed, depth reduced.
shift_left(s, step, start, pos_count) ==
    IF s.err # Ok THEN s
    ELSE IF s.depth < pos_count THEN Fail(s, StackUnderflow)
    ELSE IF s.depth > Len(s.user_registers) \/ step + 1 >= trace_length
         THEN Fail(s, IndexOutOfBounds)
         ELSE LET ur == s.user_registers
              IN [s EXCEPT
                    !.user_registers =
                        [j \in 1..Len(ur) |->
                            IF j - 1 >= s.depth - pos_count /\ j - 1 < s.depth
                            THEN [ur[j] EXCEPT ![step + 1] = ZERO]
                            ELSE IF j - 1 + pos_count >= start
                                    /\ j - 1 + pos_count < s.depth
                            THEN [ur[j] EXCEPT ![step + 1] = ur[j + pos_count][step]]
                            ELSE ur[j]],
                    !.depth = s.depth - pos_count]

\* Extends the stack by num_registers zero-filled registers
add_registers(s, num_registers) ==
    [s EXCEPT !.user_registers =
        s.user_registers \o
        [k \in 1..num_registers |-> filled_vector(trace_length, ZERO)]]

\* depth raised by pos_count (overflow checked), max_depth and the register
\* file grown when the new depth exceeds max_depth, values from column
\* `start` on right-shifted by pos_count.
shift_right(s, step, start, pos_count) ==
    IF s.err # Ok THEN s
    ELSE IF s.depth + pos_count > MAX_USER_STACK_DEPTH THEN Fail(s, StackOverflow)
    ELSE LET new_depth == s.depth + pos_count
             new_max == IF new_depth > s.max_depth
                        THEN s.max_depth + pos_count
                        ELSE s.max_depth
             grown == IF new_max > Len(s.user_registers)
                      THEN add_registers(s, new_max - Len(s.user_registers))
                      ELSE s
             ur == grown.user_registers
         IN IF start < s.depth
               /\ (new_depth > Len(ur) \/ step + 1 >= trace_length)
            THEN Fail(s, IndexOutOfBounds)
            ELSE [grown EXCEPT
                    !.depth = new_depth,
                    !.max_depth = new_max,
                    !.user_registers =
                        [j \in 1..Len(ur) |->
                            IF j - 1 - pos_count >= start /\ j - 1 < new_depth
                            THEN [ur[j] EXCEPT ![step + 1] = ur[j - pos_count][step]]
                            ELSE ur[j]]]

\* ------------------------------------------------------------------------
\* Operations of StackTrace
\* ------------------------------------------------------------------------
IsBinary(x) == x = ZERO \/ x = ONE

\* self.secret_inputs_a.pop(): the last element
Last(q) == q[Len(q)]
Front(q) == SubSeq(q, 1, Len(q) - 1)

noop(s, step) == copy_state(s, step, 0)

\* assert that removes the top cell whatever its value
assert_unchecked(s, step) ==
    IF s.depth < 1 THEN Fail(s, StackUnderflow)
    ELSE shift_left(s, step, 1, 1)

assert(s, step) ==
    IF s.depth < 1 THEN Fail(s, StackUnderflow)
    ELSE IF U(s, 0, step) # ONE THEN Fail(s, AssertFailed)
    ELSE shift_left(s, step, 1, 1)

push(s, step, value) ==
    SetUser(shift_right(s, step, 0, 1), 0, step + 1, value)

read(s, step) ==
    IF Len(s.secret_inputs_a) = 0 THEN Fail(s, MissingSecretInput)
    ELSE LET s1 == shift_right(s, step, 0, 1)
             value == Last(s.secret_inputs_a)
             s2 == IF s1.err # Ok THEN s1
                   ELSE [s1 EXCEPT !.secret_inputs_a = Front(s.secret_inputs_a)]
         IN SetUser(s2, 0, step + 1, value)

\* read2 that forgets to pop secret_inputs_b
read2_keeps_b(s, step) ==
    IF Len(s.secret_inputs_a) = 0 THEN Fail(s, MissingSecretInput)
    ELSE IF Len(s.secret_inputs_b) = 0 THEN Fail(s, MissingSecretInput)
    ELSE LET s1 == shift_right(s, step, 0, 2)
             value_a == Last(s.secret_inputs_a)
             value_b == Last(s.secret_inputs_b)
             s2 == IF s1.err # Ok THEN s1
                   ELSE [s1 EXCEPT !.secret_inputs_a = Front(s.secret_inputs_a)]
         IN SetUser(SetUser(s2, 0, step + 1, value_b), 1, step + 1, value_a)

read2(s, step) ==
    IF Len(s.secret_inputs_a) = 0 THEN Fail(s, MissingSecretInput)
    ELSE IF Len(s.secret_inputs_b) = 0 THEN Fail(s, MissingSecretInput)
    ELSE LET s1 == shift_right(s, step, 0, 2)
             value_a == Last(s.secret_inputs_a)
             value_b == Last(s.secret_inputs_b)
             s2 == IF s1.err # Ok THEN s1
                   ELSE [s1 EXCEPT !.secret_inputs_a = Front(s.secret_inputs_a),
                                   !.secret_inputs_b = Front(s.secret_inputs_b)]
         IN SetUser(SetUser(s2, 0, step + 1, value_b), 1, step + 1, value_a)

dup(s, step) ==
    IF s.depth < 1 THEN Fail(s, StackUnderflow)
    ELSE SetUser(shift_right(s, step, 0, 1), 0, step + 1, U(s, 0, step))

dup2(s, step) ==
    IF s.depth < 2 THEN Fail(s, StackUnderflow)
    ELSE LET s1 == shift_right(s, step, 0, 2)
             s2 == SetUser(s1, 0, step + 1, U(s, 0, step))
         IN SetUser(s2, 1, step + 1, U(s, 1, step))

dup4(s, step) ==
    IF s.depth < 4 THEN Fail(s, StackUnderflow)
    ELSE LET s1 == shift_right(s, step, 0, 4)
             s2 == SetUser(s1, 0, step + 1, U(s, 0, step))
             s3 == SetUser(s2, 1, step + 1, U(s, 1, step))
             s4 == SetUser(s3, 2, step + 1, U(s, 2, step))
         IN SetUser(s4, 3, step + 1, U(s, 3, step))

pad2(s, step) ==
    LET s1 == shift_right(s, step, 0, 2)
        s2 == SetUser(s1, 0, step + 1, ZERO)
    IN SetUser(s2, 1, step + 1, ZERO)

drop(s, step) ==
    IF s.depth < 1 THEN Fail(s, StackUnderflow)
    ELSE shift_left(s, step, 1, 1)

drop4(s, step) ==
    IF s.depth < 4 THEN Fail(s, StackUnderflow)
    ELSE shift_left(s, step, 4, 4)

swap(s, step) ==
    IF s.depth < 2 THEN Fail(s, StackUnderflow)
    ELSE LET s1 == SetUser(s, 0, step + 1, U(s, 1, step))
             s2 == SetUser(s1, 1, step + 1, U(s, 0, step))
         IN copy_state(s2, step, 2)

\* swap2 that exchanges the cells within each pair
swap2_within_pairs(s, step) ==
    IF s.depth < 4 THEN Fail(s, StackUnderflow)
    ELSE LET s1 == SetUser(s, 0, step + 1, U(s, 1, step))
             s2 == SetUser(s1, 1, step + 1, U(s, 0, step))
             s3 == SetUser(s2, 2, step + 1, U(s, 3, step))
             s4 == SetUser(s3, 3, step + 1, U(s, 2, step))
         IN copy_state(s4, step, 4)

swap2(s, step) ==
    IF s.depth < 4 THEN Fail(s, StackUnderflow)
    ELSE LET s1 == SetUser(s, 0, step + 1, U(s, 2, step))
             s2 == SetUser(s1, 1, step + 1, U(s, 3, step))
             s3 == SetUser(s2, 2, step + 1, U(s, 0, step))
             s4 == SetUser(s3, 3, step + 1, U(s, 1, step))
         IN copy_state(s4, step, 4)

\* swap4 that checks for 4 cells instead of 8
swap4_min4(s, step) ==
    IF s.depth < 4 THEN Fail(s, StackUnderflow)
    ELSE LET s1 == SetUser(s, 0, step + 1, U(s, 4, step))
             s2 == SetUser(s1, 1, step + 1, U(s, 5, step))
             s3 == SetUser(s2, 2, step + 1, U(s, 6, step))
             s4 == SetUser(s3, 3, step + 1, U(s, 7, step))
             s5 == SetUser(s4, 4, step + 1, U(s, 0, step))
             s6 == SetUser(s5, 5, step + 1, U(s, 1, step))
             s7 == SetUser(s6, 6, step + 1, U(s, 2, step))
             s8 == SetUser(s7, 7, step + 1, U(s, 3, step))
         IN copy_state(s8, step, 8)

swap4(s, step) ==
    IF s.depth < 8 THEN Fail(s, StackUnderflow)
    ELSE LET s1 == SetUser(s, 0, step + 1, U(s, 4, step))
             s2 == SetUser(s1, 1, step + 1, U(s, 5, step))
             s3 == SetUser(s2, 2, step + 1, U(s, 6, step))
             s4 == SetUser(s3, 3, step + 1, U(s, 7, step))
             s5 == SetUser(s4, 4, step + 1, U(s, 0, step))
             s6 == SetUser(s5, 5, step + 1, U(s, 1, step))
             s7 == SetUser(s6, 6, step + 1, U(s, 2, step))
             s8 == SetUser(s7, 7, step + 1, U(s, 3, step))
         IN copy_state(s8, step, 8)

roll4(s, step) ==
    IF s.depth < 4 THEN Fail(s, StackUnderflow)
    ELSE LET s1 == SetUser(s, 0, step + 1, U(s, 3, step))
             s2 == SetUser(s1, 1, step + 1, U(s, 0, step))
             s3 == SetUser(s2, 2, step + 1, U(s, 1, step))
             s4 == SetUser(s3, 3, step + 1, U(s, 2, step))
         IN copy_state(s4, step, 4)

\* roll8 that rotates the top eight values the other way
roll8_upward(s, step) ==
    IF s.depth < 8 THEN Fail(s, StackUnderflow)
    ELSE LET s1 == SetUser(s, 7, step + 1, U(s, 0, step))
             s2 == SetUser(s1, 0, step + 1, U(s, 1, step))
             s3 == SetUser(s2, 1, step + 1, U(s, 2, step))
             s4 == SetUser(s3, 2, step + 1, U(s, 3, step))
             s5 == SetUser(s4, 3, step + 1, U(s, 4, step))
             s6 == SetUser(s5, 4, step + 1, U(s, 5, step))
             s7 == SetUser(s6, 5, step + 1, U(s, 6, step))
             s8 == SetUser(s7, 6, step + 1, U(s, 7, step))
         IN copy_state(s8, step, 8)

roll8(s, step) ==
    IF s.depth < 8 THEN Fail(s, StackUnderflow)
    ELSE LET s1 == SetUser(s, 0, step + 1, U(s, 7, step))
             s2 == SetUser(s1, 1, step + 1, U(s, 0, step))
             s3 == SetUser(s2, 2, step + 1, U(s, 1, step))
             s4 == SetUser(s3, 3, step + 1, U(s, 2, step))
             s5 == SetUser(s4, 4, step + 1, U(s, 3, step))
             s6 == SetUser(s5, 5, step + 1, U(s, 4, step))
             s7 == SetUser(s6, 6, step + 1, U(s, 5, step))
             s8 == SetUser(s7, 7, step + 1, U(s, 6, step))
         IN copy_state(s8, step, 8)

\* choose with the branches exchanged
choose_swapped(s, step) ==
    IF s.depth < 3 THEN Fail(s, StackUnderflow)
    ELSE LET condition == U(s, 2, step)
             s1 == IF condition = ONE
                   THEN SetUser(s, 0, step + 1, U(s, 1, step))
                   ELSE IF condition = ZERO
                   THEN SetUser(s, 0, step + 1, U(s, 0, step))
                   ELSE Fail(s, NonBinary)
         IN shift_left(s1, step, 3, 2)

choose(s, step) ==
    IF s.depth < 3 THEN Fail(s, StackUnderflow)
    ELSE LET condition == U(s, 2, step)
             s1 == IF condition = ONE
                   THEN SetUser(s, 0, step + 1, U(s, 0, step))
                   ELSE IF condition = ZERO
                   THEN SetUser(s, 0, step + 1, U(s, 1, step))
                   ELSE Fail(s, NonBinary)
         IN shift_left(s1, step, 3, 2)

choose2(s, step) ==
    IF s.depth < 6 THEN Fail(s, StackUnderflow)
    ELSE LET condition == U(s, 4, step)
             s1 == IF condition = ONE
                   THEN SetUser(SetUser(s, 0, step + 1, U(s, 0, step)),
                                1, step + 1, U(s, 1, step))
                   ELSE IF condition = ZERO
                   THEN SetUser(SetUser(s, 0, step + 1, U(s, 2, step)),
                                1, step + 1, U(s, 3, step))
                   ELSE Fail(s, NonBinary)
         IN shift_left(s1, step, 6, 4)

\* add that multiplies
add_as_mul(s, step) ==
    IF s.depth < 2 THEN Fail(s, StackUnderflow)
    ELSE LET x == U(s, 0, step)
             y == U(s, 1, step)
         IN shift_left(SetUser(s, 0, step + 1, f_mul(x, y)), step, 2, 1)

add(s, step) ==
    IF s.depth < 2 THEN Fail(s, StackUnderflow)
    ELSE LET x == U(s, 0, step)
             y == U(s, 1, step)
         IN shift_left(SetUser(s, 0, step + 1, f_add(x, y)), step, 2, 1)

mul(s, step) ==
    IF s.depth < 2 THEN Fail(s, StackUnderflow)
    ELSE LET x == U(s, 0, step)
             y == U(s, 1, step)
         IN shift_left(SetUser(s, 0, step + 1, f_mul(x, y)), step, 2, 1)

\* inv without the check for zero
inv_unchecked(s, step) ==
    IF s.depth < 1 THEN Fail(s, StackUnderflow)
    ELSE LET x == U(s, 0, step)
         IN copy_state(SetUser(s, 0, step + 1, f_inv(x)), step, 1)

inv(s, step) ==
    IF s.depth < 1 THEN Fail(s, StackUnderflow)
    ELSE LET x == U(s, 0, step)
         IN IF x = ZERO THEN Fail(s, DivisionByZero)
            ELSE copy_state(SetUser(s, 0, step + 1, f_inv(x)), step, 1)

neg(s, step) ==
    IF s.depth < 1 THEN Fail(s, StackUnderflow)
    ELSE LET x == U(s, 0, step)
         IN copy_state(SetUser(s, 0, step + 1, f_neg(x)), step, 1)

\* not without the check for a binary value
not_unchecked(s, step) ==
    IF s.depth < 1 THEN Fail(s, StackUnderflow)
    ELSE LET x == U(s, 0, step)
         IN copy_state(SetUser(s, 0, step + 1, f_sub(ONE, x)), step, 1)

not(s, step) ==
    IF s.depth < 1 THEN Fail(s, StackUnderflow)
    ELSE LET x == U(s, 0, step)
         IN IF ~IsBinary(x) THEN Fail(s, NonBinary)
            ELSE copy_state(SetUser(s, 0, step + 1, f_sub(ONE, x)), step, 1)

\* eq that writes the aux cell to the next row
eq_aux_next_row(s, step) ==
    IF s.depth < 2 THEN Fail(s, StackUnderflow)
    ELSE LET x == U(s, 0, step)
             y == U(s, 1, step)
             s1 == IF x = y
                   THEN SetUser(SetAux(s, 0, step + 1, ONE), 0, step + 1, ONE)
                   ELSE SetUser(SetAux(s, 0, step + 1, f_inv(f_sub(x, y))),
                                0, step + 1, ZERO)
         IN shift_left(s1, step, 2, 1)

\* eq that writes its aux value to the second aux register
eq_aux_second(s, step) ==
    IF s.depth < 2 THEN Fail(s, StackUnderflow)
    ELSE LET x == U(s, 0, step)
             y == U(s, 1, step)
             s1 == IF x = y
                   THEN SetUser(SetAux(s, 1, step, ONE), 0, step + 1, ONE)
                   ELSE SetUser(SetAux(s, 1, step, f_inv(f_sub(x, y))),
                                0, step + 1, ZERO)
         IN shift_left(s1, step, 2, 1)

eq(s, step) ==
    IF s.depth < 2 THEN Fail(s, StackUnderflow)
    ELSE LET x == U(s, 0, step)
             y == U(s, 1, step)
             s1 == IF x = y
                   THEN SetUser(SetAux(s, 0, step, ONE), 0, step + 1, ONE)
                   ELSE SetUser(SetAux(s, 0, step, f_inv(f_sub(x, y))),
                                0, step + 1, ZERO)
         IN shift_left(s1, step, 2, 1)

\* cmp whose later bits are not masked by the comparison already made
cmp_unmasked(s, step) ==
    IF s.depth < 8 THEN Fail(s, StackUnderflow)
    ELSE IF Len(s.secret_inputs_a) = 0 THEN Fail(s, MissingSecretInput)
    ELSE IF Len(s.secret_inputs_b) = 0 THEN Fail(s, MissingSecretInput)
    ELSE LET a_bit == Last(s.secret_inputs_a)
             b_bit == Last(s.secret_inputs_b)
             bit_gt == f_mul(a_bit, f_sub(ONE, b_bit))
             bit_lt == f_mul(b_bit, f_sub(ONE, a_bit))
             gt == U(s, 2, step)
             lt == U(s, 3, step)
             not_set == ONE
             power_of_two == f_exp(from_usize(2), 127 - (step % 128))
             s0 == [s EXCEPT !.secret_inputs_a = Front(s.secret_inputs_a),
                             !.secret_inputs_b = Front(s.secret_inputs_b)]
             s1 == SetUser(s0, 0, step + 1, a_bit)
             s2 == SetUser(s1, 1, step + 1, b_bit)
             s3 == SetUser(s2, 2, step + 1, f_add(gt, f_mul(bit_gt, not_set)))
             s4 == SetUser(s3, 3, step + 1, f_add(lt, f_mul(bit_lt, not_set)))
             s5 == SetUser(s4, 4, step + 1,
                           f_add(U(s, 4, step), f_mul(a_bit, power_of_two)))
             s6 == SetUser(s5, 5, step + 1,
                           f_add(U(s, 5, step), f_mul(b_bit, power_of_two)))
         IN IF ~IsBinary(a_bit) \/ ~IsBinary(b_bit) THEN Fail(s, NonBinary)
            ELSE copy_state(s6, step, 6)

\* cmp that weighs the bits least-significant first
cmp_lsb_first(s, step) ==
    IF s.depth < 8 THEN Fail(s, StackUnderflow)
    ELSE IF Len(s.secret_inputs_a) = 0 THEN Fail(s, MissingSecretInput)
    ELSE IF Len(s.secret_inputs_b) = 0 THEN Fail(s, MissingSecretInput)
    ELSE LET a_bit == Last(s.secret_inputs_a)
             b_bit == Last(s.secret_inputs_b)
             bit_gt == f_mul(a_bit, f_sub(ONE, b_bit))
             bit_lt == f_mul(b_bit, f_sub(ONE, a_bit))
             gt == U(s, 2, step)
             lt == U(s, 3, step)
             not_set == f_mul(f_sub(ONE, gt), f_sub(ONE, lt))
             power_of_two == f_exp(from_usize(2), step % 128)
             s0 == [s EXCEPT !.secret_inputs_a = Front(s.secret_inputs_a),
                             !.secret_inputs_b = Front(s.secret_inputs_b)]
             s1 == SetUser(s0, 0, step + 1, a_bit)
             s2 == SetUser(s1, 1, step + 1, b_bit)
             s3 == SetUser(s2, 2, step + 1, f_add(gt, f_mul(bit_gt, not_set)))
             s4 == SetUser(s3, 3, step + 1, f_add(lt, f_mul(bit_lt, not_set)))
             s5 == SetUser(s4, 4, step + 1,
                           f_add(U(s, 4, step), f_mul(a_bit, power_of_two)))
             s6 == SetUser(s5, 5, step + 1,
                           f_add(U(s, 5, step), f_mul(b_bit, power_of_two)))
         IN IF ~IsBinary(a_bit) \/ ~IsBinary(b_bit) THEN Fail(s, NonBinary)
            ELSE copy_state(s6, step, 6)

\* cmp in which each latch is held by its own cell only
cmp_own_latch(s, step) ==
    IF s.depth < 8 THEN Fail(s, StackUnderflow)
    ELSE IF Len(s.secret_inputs_a) = 0 THEN Fail(s, MissingSecretInput)
    ELSE IF Len(s.secret_inputs_b) = 0 THEN Fail(s, MissingSecretInput)
    ELSE LET a_bit == Last(s.secret_inputs_a)
             b_bit == Last(s.secret_inputs_b)
             bit_gt == f_mul(a_bit, f_sub(ONE, b_bit))
             bit_lt == f_mul(b_bit, f_sub(ONE, a_bit))
             gt == U(s, 2, step)
             lt == U(s, 3, step)
             power_of_two == f_exp(from_usize(2), 127 - (step % 128))
             s0 == [s EXCEPT !.secret_inputs_a = Front(s.secret_inputs_a),
                             !.secret_inputs_b = Front(s.secret_inputs_b)]
             s1 == SetUser(s0, 0, step + 1, a_bit)
             s2 == SetUser(s1, 1, step + 1, b_bit)
             s3 == SetUser(s2, 2, step + 1,
                           f_add(gt, f_mul(bit_gt, f_sub(ONE, gt))))
             s4 == SetUser(s3, 3, step + 1,
                           f_add(lt, f_mul(bit_lt, f_sub(ONE, lt))))
             s5 == SetUser(s4, 4, step + 1,
                           f_add(U(s, 4, step), f_mul(a_bit, power_of_two)))
             s6 == SetUser(s5, 5, step + 1,
                           f_add(U(s, 5, step), f_mul(b_bit, power_of_two)))
         IN IF ~IsBinary(a_bit) \/ ~IsBinary(b_bit) THEN Fail(s, NonBinary)
            ELSE copy_state(s6, step, 6)

cmp(s, step) ==
    IF s.depth < 8 THEN Fail(s, StackUnderflow)
    ELSE IF Len(s.secret_inputs_a) = 0 THEN Fail(s, MissingSecretInput)
    ELSE IF Len(s.secret_inputs_b) = 0 THEN Fail(s, MissingSecretInput)
    ELSE LET a_bit == Last(s.secret_inputs_a)
             b_bit == Last(s.secret_inputs_b)
             bit_gt == f_mul(a_bit, f_sub(ONE, b_bit))
             bit_lt == f_mul(b_bit, f_sub(ONE, a_bit))
             gt == U(s, 2, step)
             lt == U(s, 3, step)
             not_set == f_mul(f_sub(ONE, gt), f_sub(ONE, lt))
             power_of_two == f_exp(from_usize(2), 127 - (step % 128))
             s0 == [s EXCEPT !.secret_inputs_a = Front(s.secret_inputs_a),
                             !.secret_inputs_b = Front(s.secret_inputs_b)]
             s1 == SetUser(s0, 0, step + 1, a_bit)
             s2 == SetUser(s1, 1, step + 1, b_bit)
             s3 == SetUser(s2, 2, step + 1, f_add(gt, f_mul(bit_gt, not_set)))
             s4 == SetUser(s3, 3, step + 1, f_add(lt, f_mul(bit_lt, not_set)))
             s5 == SetUser(s4, 4, step + 1,
                           f_add(U(s, 4, step), f_mul(a_bit, power_of_two)))
             s6 == SetUser(s5, 5, step + 1,
                           f_add(U(s, 5, step), f_mul(b_bit, power_of_two)))
         IN IF ~IsBinary(a_bit) \/ ~IsBinary(b_bit) THEN Fail(s, NonBinary)
            ELSE copy_state(s6, step, 6)

\* hashr that takes the round of the next step
hashr_next_round(s, step) ==
    IF s.depth < HASH_STATE_WIDTH THEN Fail(s, StackUnderflow)
    ELSE LET state == [k \in 1..HASH_STATE_WIDTH |-> U(s, k - 1, step)]
             out == apply_round(state, step + 1)
             s1 == SetUser(s, 0, step + 1, out[1])
             s2 == SetUser(s1, 1, step + 1, out[2])
             s3 == SetUser(s2, 2, step + 1, out[3])
             s4 == SetUser(s3, 3, step + 1, out[4])
             s5 == SetUser(s4, 4, step + 1, out[5])
             s6 == SetUser(s5, 5, step + 1, out[6])
         IN copy_state(s6, step, HASH_STATE_WIDTH)

hashr(s, step) ==
    IF s.depth < HASH_STATE_WIDTH THEN Fail(s, StackUnderflow)
    ELSE LET state == [k \in 1..HASH_STATE_WIDTH |-> U(s, k - 1, step)]
             out == apply_round(state, step)
             s1 == SetUser(s, 0, step + 1, out[1])
             s2 == SetUser(s1, 1, step + 1, out[2])
             s3 == SetUser(s2, 2, step + 1, out[3])
             s4 == SetUser(s3, 3, step + 1, out[4])
             s5 == SetUser(s4, 4, step + 1, out[5])
             s6 == SetUser(s5, 5, step + 1, out[6])
         IN copy_state(s6, step, HASH_STATE_WIDTH)

\* ------------------------------------------------------------------------
\* execute: validation and construction of the StackTrace
\* ------------------------------------------------------------------------
\* check_program without the assertion on the last operation
check_program_no_last(prog, ext) ==
    IF ~(Len(prog) > 1) THEN BadLength
    ELSE IF ~is_power_of_two(Len(prog)) THEN BadLengthPow2
    ELSE IF prog[1] # BEGIN THEN BadFirst
    ELSE IF ~is_power_of_two(ext) THEN BadExtension
    ELSE Ok

\* the first assertion of execute that fails, Ok if none does
check_program(prog, ext) ==
    IF ~(Len(prog) > 1) THEN BadLength
    ELSE IF ~is_power_of_two(Len(prog)) THEN BadLengthPow2
    ELSE IF prog[1] # BEGIN THEN BadFirst
    ELSE IF prog[Len(prog)] # NOOP THEN BadLast
    ELSE IF ~is_power_of_two(ext) THEN BadExtension
    ELSE Ok

\* init_user_registers that leaves out the last public input
init_user_registers_short(pub, length) ==
    LET init_stack_depth == Max(Len(pub), MIN_USER_STACK_DEPTH)
    IN [j \in 1..init_stack_depth |->
           [r \in 0..(length - 1) |->
               IF r = 0 /\ j < Len(pub) THEN pub[j] ELSE ZERO]]

\* the user registers with the first state populated with public inputs
init_user_registers(pub, length) ==
    LET init_stack_depth == Max(Len(pub), MIN_USER_STACK_DEPTH)
    IN [j \in 1..init_stack_depth |->
           [r \in 0..(length - 1) |->
               IF r = 0 /\ j <= Len(pub) THEN pub[j] ELSE ZERO]]

init_aux_registers(length) ==
    [j \in 1..AUX_WIDTH |-> filled_vector(length, ZERO)]

\* init_secret_inputs that keeps the order supplied
init_secret_inputs_as_given(secret) == secret

\* secret inputs are reversed so that pops consume them in FIFO order
init_secret_inputs(secret) == Reverse(secret)

init_depth(pub) == Len(pub)

Abort(e) ==
    /\ pc' = "abort"
    /\ error' = e
    /\ UNCHANGED <<inputs, flow, deep, aux_registers, user_registers, secret_inputs_a,
                   secret_inputs_b, max_depth, depth, i, registers, executed,
                   depth_at>>

Validate ==
    /\ pc = "validate"
    /\ LET e == check_program(program, extension_factor)
       IN IF e # Ok THEN Abort(e)
          ELSE /\ user_registers' = init_user_registers(public_inputs, trace_length)
               /\ aux_registers' = init_aux_registers(trace_length)
               /\ secret_inputs_a' = init_secret_inputs(secret_a)
               /\ secret_inputs_b' = init_secret_inputs(secret_b)
               /\ max_depth' = init_depth(public_inputs)
               /\ depth' = init_depth(public_inputs)
               /\ i' = 0
               /\ pc' = "run"
               /\ depth_at' = <<init_depth(public_inputs)>>
               /\ UNCHANGED <<inputs, flow, deep, error, registers, executed>>

\* ------------------------------------------------------------------------
\* execute: the main loop, one action per match arm
\* ------------------------------------------------------------------------
Running == pc = "run" /\ i < trace_length - 1

CurOp == as_u8(Slot(i))

\* Commit that leaves the loop index where it was
Commit_stalled(r, ops) ==
    IF r.err # Ok THEN Abort(r.err)
    ELSE /\ aux_registers' = r.aux_registers
         /\ user_registers' = r.user_registers
         /\ secret_inputs_a' = r.secret_inputs_a
         /\ secret_inputs_b' = r.secret_inputs_b
         /\ max_depth' = r.max_depth
         /\ depth' = r.depth
         /\ i' = i
         /\ executed' = executed \o ops
         /\ depth_at' = depth_at \o [k \in 1..Len(ops) |-> r.depth]
         /\ UNCHANGED <<inputs, flow, deep, pc, error, registers>>

\* The StackTrace r left by one loop iteration that ran the cycles `ops`
\* (one cycle, or two for PUSH), or the panic it ended with.
Commit(r, ops) ==
    IF r.err # Ok THEN Abort(r.err)
    ELSE /\ aux_registers' = r.aux_registers
         /\ user_registers' = r.user_registers
         /\ secret_inputs_a' = r.secret_inputs_a
         /\ secret_inputs_b' = r.secret_inputs_b
         /\ max_depth' = r.max_depth
         /\ depth' = r.depth
         /\ i' = i + Len(ops)
         /\ executed' = executed \o ops
         /\ depth_at' = depth_at \o [k \in 1..Len(ops) |-> r.depth]
         /\ UNCHANGED <<inputs, flow, deep, pc, error, registers>>

\* push_and_skip that leaves the skipped cycle without its row
push_no_skip(s, step, value) == push(s, step, value)

\* push the value of the next instruction and skip a step
push_and_skip(s, step, value) == noop(push(s, step, value), step + 1)

OpBegin == Running /\ CurOp = BEGIN /\ Commit(noop(Stack, i), <<BEGIN>>)
OpNoop == Running /\ CurOp = NOOP /\ Commit(noop(Stack, i), <<NOOP>>)
OpAssert == Running /\ CurOp = ASSERT /\ Commit(assert(Stack, i), <<ASSERT>>)
OpPush ==
    Running /\ CurOp = PUSH
    /\ Commit(push_and_skip(Stack, i, Slot(i + 1)), <<PUSH, NOOP>>)
OpRead == Running /\ CurOp = READ /\ Commit(read(Stack, i), <<READ>>)
OpRead2 == Running /\ CurOp = READ2 /\ Commit(read2(Stack, i), <<READ2>>)
OpDup == Running /\ CurOp = DUP /\ Commit(dup(Stack, i), <<DUP>>)
OpDup2 == Running /\ CurOp = DUP2 /\ Commit(dup2(Stack, i), <<DUP2>>)
OpDup4 == Running /\ CurOp = DUP4 /\ Commit(dup4(Stack, i), <<DUP4>>)
OpPad2 == Running /\ CurOp = PAD2 /\ Commit(pad2(Stack, i), <<PAD2>>)
OpDrop == Running /\ CurOp = DROP /\ Commit(drop(Stack, i), <<DROP>>)
OpDrop4 == Running /\ CurOp = DROP4 /\ Commit(drop4(Stack, i), <<DROP4>>)
OpSwap == Running /\ CurOp = SWAP /\ Commit(swap(Stack, i), <<SWAP>>)
OpSwap2 == Running /\ CurOp = SWAP2 /\ Commit(swap2(Stack, i), <<SWAP2>>)
OpSwap4 == Running /\ CurOp = SWAP4 /\ Commit(swap4(Stack, i), <<SWAP4>>)
OpRoll4 == Running /\ CurOp = ROLL4 /\ Commit(roll4(Stack, i), <<ROLL4>>)
OpRoll8 == Running /\ CurOp = ROLL8 /\ Commit(roll8(Stack, i), <<ROLL8>>)
OpChoose == Running /\ CurOp = OP_CHOOSE /\ Commit(choose(Stack, i), <<OP_CHOOSE>>)
OpChoose2 == Running /\ CurOp = CHOOSE2 /\ Commit(choose2(Stack, i), <<CHOOSE2>>)
OpAdd == Running /\ CurOp = ADD /\ Commit(add(Stack, i), <<ADD>>)
OpMul == Running /\ CurOp = MUL /\ Commit(mul(Stack, i), <<MUL>>)
OpInv == Running /\ CurOp = INV /\ Commit(inv(Stack, i), <<INV>>)
OpNeg == Running /\ CurOp = NEG /\ Commit(neg(Stack, i), <<NEG>>)
OpNot == Running /\ CurOp = NOT /\ Commit(not(Stack, i), <<NOT>>)
OpEq == Running /\ CurOp = EQ /\ Commit(eq(Stack, i), <<EQ>>)
OpCmp == Running /\ CurOp = CMP /\ Commit(cmp(Stack, i), <<CMP>>)
OpHashr == Running /\ CurOp = HASHR /\ Commit(hashr(Stack, i), <<HASHR>>)
OpUnsupported == Running /\ CurOp \notin SupportedOps /\ Abort(Unsupported)

\* ------------------------------------------------------------------------
\* execute: after the loop
\* ------------------------------------------------------------------------
\* self.user_registers.truncate(len)
truncate(q, len) == SubSeq(q, 1, Min(len, Len(q)))

\* keep only the registers used during program execution
returned_registers(s) == s.aux_registers \o truncate(s.user_registers, s.max_depth)

Finish ==
    /\ pc = "run"
    /\ ~(i < trace_length - 1)
    /\ IF ~(Len(secret_inputs_a) = 0 /\ Len(secret_inputs_b) = 0)
       THEN Abort(ExtraSecretInputs)
       ELSE /\ registers' = returned_registers(Stack)
            /\ pc' = "done"
            /\ UNCHANGED <<inputs, flow, deep, aux_registers, user_registers, secret_inputs_a,
                           secret_inputs_b, max_depth, depth, i, error, executed,
                           depth_at>>

\* ------------------------------------------------------------------------
\* Inputs
\* ------------------------------------------------------------------------
\* n values counting up from `start`, wrapping after MaxInputValue
Ramp(start, n) == [k \in 1..n |-> (start + k - 1) % (MaxInputValue + 1)]

\* every program of a valid shape and of length at most MaxProgramLen
ValidPrograms ==
    UNION { { [k \in 1..n |-> IF k = 1 THEN BEGIN
                              ELSE IF k = n THEN NOOP ELSE m[k]] :
                m \in [2..(n - 1) -> Field] } :
            n \in { l \in 2..MaxProgramLen : is_power_of_two(l) } }

\* programs of any shape over a few slot values
AnyPrograms == UNION { [1..n -> {NOOP, BEGIN, ADD}] : n \in 0..MaxProgramLen }

\* a TraceState: sponge(), ctx_stack() and loop_stack()
TraceState(sponge, ctx_stack, loop_stack) ==
    [sponge |-> sponge, ctx_stack |-> ctx_stack, loop_stack |-> loop_stack]

\* no flow constraint is being evaluated
FlowIdle ==
    /\ current = TraceState(<<0, 0, 0, 0>>, <<>>, <<>>)
    /\ next = current
    /\ result = <<>>
    /\ op_flag = 0
    /\ evaluated = ""

\* execute has not built its StackTrace
StackNotBuilt ==
    /\ aux_registers = <<>>
    /\ user_registers = <<>>
    /\ secret_inputs_a = <<>>
    /\ secret_inputs_b = <<>>
    /\ max_depth = 0
    /\ depth = 0
    /\ i = 0
    /\ pc = "validate"
    /\ error = Ok
    /\ registers = <<>>
    /\ executed = <<>>
    /\ depth_at = <<>>

\* no ConstraintPoly has been built
PolyIdle ==
    /\ coefficients = <<>>
    /\ debug = FALSE
    /\ poly = <<>>
    /\ z = 0
    /\ cc = 0
    /\ composition = <<>>
    /\ twiddles = 0
    /\ returned = <<>>
    /\ called = ""

NotStarted == FlowIdle /\ StackNotBuilt /\ PolyIdle

\* Every opcode that takes a value from secret_b takes one from secret_a too,
\* so the inputs tried have secret_b no longer than secret_a.
Init ==
    /\ program \in ValidPrograms
    /\ extension_factor = EXTENSION_FACTOR
    /\ \E start \in 0..MaxInputValue :
       \E np \in 0..(MAX_USER_STACK_DEPTH + 1) :
       \E na \in 0..MaxSecretLen :
       \E nb \in 0..na :
          /\ public_inputs = Ramp(start, np)
          /\ secret_a = Ramp(start + 1, na)
          /\ secret_b = Ramp(start + 2, nb)
    /\ NotStarted

Next ==
    \/ Validate
    \/ OpBegin \/ OpNoop \/ OpAssert \/ OpPush \/ OpRead \/ OpRead2
    \/ OpDup \/ OpDup2 \/ OpDup4 \/ OpPad2 \/ OpDrop \/ OpDrop4
    \/ OpSwap \/ OpSwap2 \/ OpSwap4 \/ OpRoll4 \/ OpRoll8
    \/ OpChoose \/ OpChoose2 \/ OpAdd \/ OpMul \/ OpInv \/ OpNeg \/ OpNot
    \/ OpEq \/ OpCmp \/ OpHashr \/ OpUnsupported
    \/ Finish

Spec == Init /\ [][Next]_vars

\* the validation alone, over programs and extension factors of any shape
InitValidate ==
    /\ program \in AnyPrograms
    /\ extension_factor \in 0..MaxExtensionFactor
    /\ public_inputs = Ramp(1, 2)
    /\ secret_a = <<>>
    /\ secret_b = <<>>
    /\ NotStarted

NextValidate == Validate

SpecValidate == InitValidate /\ [][NextValidate]_vars

\* ------------------------------------------------------------------------
\* Vocabulary of the properties
\* ------------------------------------------------------------------------
\* n = 2^k for some k
IsPow2(n) == \E k \in 0..n : 2^k = n

\* the stack exists: validation passed
Built == pc \in {"run", "done"} \/ (pc = "abort" /\ user_registers # <<>>)

\* user[j] and aux[j] at row r of the trace
Cell(j, r) == user_registers[j + 1][r]
AuxCell(j, r) == aux_registers[j + 1][r]

\* rows written so far, and the depth recorded with row r
RowsWritten == Len(depth_at)
DepthAt(r) == depth_at[r + 1]

\* the cycles executed so far, and the operation of cycle c
Cycles == Len(executed)
OpAt(c) == executed[c + 1]

RECURSIVE MaxOfSeq(_)
MaxOfSeq(q) == IF Len(q) = 1 THEN q[1] ELSE Max(Head(q), MaxOfSeq(Tail(q)))

\* ------------------------------------------------------------------------
\* C1: execute rejects, before any trace row exists, exactly the programs
\* and extension factors that break one of the five conditions (length > 1,
\* length a power of two, first element BEGIN, last element NOOP, extension
\* factor a power of two); everything else passes validation.
\* ------------------------------------------------------------------------
C1_MeetsConditions ==
    /\ Len(program) >= 2
    /\ IsPow2(Len(program))
    /\ program[1] = BEGIN
    /\ program[Len(program)] = NOOP
    /\ IsPow2(extension_factor)

C1_ValidationExact ==
    pc # "validate" =>
        IF C1_MeetsConditions
        THEN pc = "run" /\ error = Ok /\ RowsWritten = 1
        ELSE /\ pc = "abort"
             /\ error \in {BadLength, BadLengthPow2, BadFirst, BadLast, BadExtension}
             /\ user_registers = <<>> /\ aux_registers = <<>> /\ RowsWritten = 0

\* a well-formed program rejected for its extension factor alone
C1_Witness ==
    /\ pc = "abort"
    /\ error = BadExtension
    /\ program = <<BEGIN, ADD, ADD, NOOP>>
    /\ extension_factor = 3

\* ------------------------------------------------------------------------
\* C2: at every step of an execution, step 0 right after seeding from the
\* public inputs included, max_depth >= depth and
\* depth <= MAX_USER_STACK_DEPTH.
\* ------------------------------------------------------------------------
C2_DepthBounds ==
    Built => (max_depth >= depth /\ depth <= MAX_USER_STACK_DEPTH)

\* ------------------------------------------------------------------------
\* C3: when execute returns, it returns exactly AUX_WIDTH + M columns, M
\* being the largest user-stack depth observed at any step (the initial
\* depth included).
\* ------------------------------------------------------------------------
C3_ColumnsAreObservedDepth ==
    pc = "done" => Len(registers) = AUX_WIDTH + MaxOfSeq(depth_at)

\* ------------------------------------------------------------------------
\* Vocabulary of the step properties: the transition from the current
\* state (row i) to the next state (NewCell: the trace after the step)
\* ------------------------------------------------------------------------
NewCell(j, r) == user_registers'[j + 1][r]
NewAuxCell(j, r) == aux_registers'[j + 1][r]

\* the step panicked with failure e and left no row
AbortsWith(e) ==
    /\ pc' = "abort"
    /\ error' = e
    /\ user_registers' = user_registers
    /\ aux_registers' = aux_registers

\* the step completed the loop iteration
Completes == pc' = "run"

\* ------------------------------------------------------------------------
\* C4: a PUSH at slot i writes program[i+1], as a raw value, to user[0] of
\* row i+1 and moves user[j] of row i to user[j+1] (depth grows by one);
\* program[i+1] is not dispatched whatever its value: the cycle that
\* follows is a NOOP, row i+2's user stack equals row i+1's, and the loop
\* resumes at slot i+2.  A PUSH fails only for a full stack or for want of
\* a row i+2.
\* ------------------------------------------------------------------------
C4_PushStep ==
    (Running /\ CurOp = PUSH) =>
        \/ /\ Completes
           /\ i' = i + 2
           /\ depth' = depth + 1
           /\ NewCell(0, i + 1) = Slot(i + 1)
           /\ \A j \in 0..(depth - 1) : NewCell(j + 1, i + 1) = Cell(j, i)
           /\ \A j \in 0..(Len(user_registers') - 1) :
                  NewCell(j, i + 2) = NewCell(j, i + 1)
           /\ executed' = executed \o <<PUSH, NOOP>>
        \/ /\ depth + 1 > MAX_USER_STACK_DEPTH
           /\ AbortsWith(StackOverflow)
        \/ /\ i + 2 >= trace_length
           /\ AbortsWith(IndexOutOfBounds)

C4_Push == [][C4_PushStep]_vars

\* a PUSH whose immediate is the identity of ASSERT, on a stack whose top
\* is not 1: dispatched as an opcode, the immediate would fail
C4_Witness ==
    /\ pc = "done"
    /\ program = <<BEGIN, PUSH, ASSERT, NOOP>>
    /\ executed = <<BEGIN, PUSH, NOOP>>
    /\ public_inputs = <<2, 0, 1>>
    /\ Cell(0, 2) = ASSERT /\ Cell(0, 3) = ASSERT /\ Cell(1, 3) = 2

\* ------------------------------------------------------------------------
\* C5: secret inputs are delivered in the order supplied: the k-th value
\* taken from secret_a by READ/READ2/CMP is secret_a[k] (likewise secret_b
\* for READ2/CMP).  READ puts it in user[0] of the next row and shifts the
\* rest right by one; READ2 puts the secret_b value in user[0], the
\* secret_a value in user[1] and shifts the rest right by two.
\* ------------------------------------------------------------------------
ConsumesA(op) == op \in {READ, READ2, CMP}
ConsumesB(op) == op \in {READ2, CMP}

\* how many values the cycles before cycle c took from secret_a, secret_b
TakenA(c) == Cardinality({d \in 0..(c - 1) : ConsumesA(OpAt(d))})
TakenB(c) == Cardinality({d \in 0..(c - 1) : ConsumesB(OpAt(d))})

C5_SecretFifo ==
    Built =>
      \A c \in 0..(Cycles - 1) :
        /\ OpAt(c) = READ =>
              /\ Cell(0, c + 1) = secret_a[TakenA(c) + 1]
              /\ DepthAt(c + 1) = DepthAt(c) + 1
              /\ \A j \in 0..(DepthAt(c) - 1) : Cell(j + 1, c + 1) = Cell(j, c)
        /\ OpAt(c) = READ2 =>
              /\ Cell(0, c + 1) = secret_b[TakenB(c) + 1]
              /\ Cell(1, c + 1) = secret_a[TakenA(c) + 1]
              /\ DepthAt(c + 1) = DepthAt(c) + 2
              /\ \A j \in 0..(DepthAt(c) - 1) : Cell(j + 2, c + 1) = Cell(j, c)
        /\ OpAt(c) = CMP =>
              /\ Cell(0, c + 1) = secret_a[TakenA(c) + 1]
              /\ Cell(1, c + 1) = secret_b[TakenB(c) + 1]

\* two READs, then a READ and a READ2, of distinct values
C5_Witness ==
    /\ pc = "done"
    /\ executed = <<BEGIN, READ, READ2>>
    /\ secret_a = <<1, 2>>
    /\ secret_b = <<2>>
    /\ public_inputs = <<0>>
    /\ Cell(0, 3) = 2 /\ Cell(1, 3) = 2 /\ Cell(2, 3) = 1 /\ Cell(3, 3) = 0

\* ------------------------------------------------------------------------
\* C6: secret-input accounting is exact: READ takes one element of secret_a
\* and none of secret_b, READ2 and CMP one of each, no other opcode any; an
\* opcode that needs a secret input when its queue is empty aborts (missing
\* secret input); an execution whose opcodes all succeed aborts at the end
\* unless both queues are empty (extra secret inputs).  So execute returns
\* only if the consuming opcodes executed match the lengths of secret_a and
\* secret_b exactly.
\* ------------------------------------------------------------------------
NeedsMissingSecret ==
    \/ ConsumesA(CurOp) /\ Len(secret_inputs_a) = 0
    \/ ConsumesB(CurOp) /\ Len(secret_inputs_b) = 0

\* the claim as stated: the failure is always the missing secret input
C6_MissingStepOriginal ==
    (Running /\ NeedsMissingSecret) => AbortsWith(MissingSecretInput)

C6_Original == [][C6_MissingStepOriginal]_vars

\* as amended: CMP checks its depth first
C6_MissingStep ==
    (Running /\ NeedsMissingSecret) =>
        IF CurOp = CMP /\ depth < 8
        THEN AbortsWith(StackUnderflow)
        ELSE AbortsWith(MissingSecretInput)

C6_ConsumeStep ==
    (Running /\ Completes) =>
        /\ Len(secret_inputs_a') =
              Len(secret_inputs_a) - (IF ConsumesA(CurOp) THEN 1 ELSE 0)
        /\ Len(secret_inputs_b') =
              Len(secret_inputs_b) - (IF ConsumesB(CurOp) THEN 1 ELSE 0)

C6_FinishStep ==
    (pc = "run" /\ ~Running) =>
        IF Len(secret_inputs_a) = 0 /\ Len(secret_inputs_b) = 0
        THEN pc' = "done"
        ELSE AbortsWith(ExtraSecretInputs)

C6_Returned ==
    pc = "done" =>
        /\ TakenA(Cycles) = Len(secret_a)
        /\ TakenB(Cycles) = Len(secret_b)

C6_Queues ==
    Built =>
        /\ Len(secret_inputs_a) = Len(secret_a) - TakenA(Cycles)
        /\ Len(secret_inputs_b) = Len(secret_b) - TakenB(Cycles)

C6_SecretAccounting ==
    /\ [][C6_MissingStep /\ C6_ConsumeStep /\ C6_FinishStep]_vars
    /\ [](C6_Returned /\ C6_Queues)

\* an execution that returned after consuming two of secret_a, one of secret_b
C6_Witness ==
    /\ pc = "done"
    /\ executed = <<BEGIN, READ2, READ>>
    /\ Len(secret_a) = 2 /\ Len(secret_b) = 1
    /\ secret_inputs_a = <<>> /\ secret_inputs_b = <<>>

\* ------------------------------------------------------------------------
\* C7: every opcode enforces its minimum user-stack depth before producing
\* a row (ASSERT, DUP, DROP, INV, NEG, NOT: 1; DUP2, SWAP, ADD, MUL, EQ: 2;
\* CHOOSE: 3; DUP4, DROP4, SWAP2, ROLL4: 4; CHOOSE2, HASHR: 6; SWAP4, ROLL8,
\* CMP: 8): below it the step aborts with stack underflow; a push past
\* MAX_USER_STACK_DEPTH aborts with stack overflow; depth is never negative.
\* ------------------------------------------------------------------------
MinDepth(op) ==
    IF op \in {ASSERT, DUP, DROP, INV, NEG, NOT} THEN 1
    ELSE IF op \in {DUP2, SWAP, ADD, MUL, EQ} THEN 2
    ELSE IF op = OP_CHOOSE THEN 3
    ELSE IF op \in {DUP4, DROP4, SWAP2, ROLL4} THEN 4
    ELSE IF op \in {CHOOSE2, HASHR} THEN 6
    ELSE IF op \in {SWAP4, ROLL8, CMP} THEN 8
    ELSE 0

\* the number of cells the opcode pushes
Pushed(op) ==
    IF op \in {PUSH, READ, DUP} THEN 1
    ELSE IF op \in {READ2, DUP2, PAD2} THEN 2
    ELSE IF op = DUP4 THEN 4
    ELSE 0

C7_UnderflowStep ==
    (Running /\ depth < MinDepth(CurOp)) => AbortsWith(StackUnderflow)

\* a push happens when the opcode has its operands and its secret inputs
C7_OverflowStep ==
    (/\ Running
     /\ Pushed(CurOp) > 0
     /\ depth >= MinDepth(CurOp)
     /\ ~NeedsMissingSecret
     /\ depth + Pushed(CurOp) > MAX_USER_STACK_DEPTH) => AbortsWith(StackOverflow)

C7_DepthChecks ==
    /\ [][C7_UnderflowStep /\ C7_OverflowStep]_vars
    /\ [](Built => depth >= 0)

\* SWAP4 refused on a stack of 7
C7_Witness ==
    /\ pc = "abort"
    /\ error = StackUnderflow
    /\ i = 2
    /\ as_u8(Slot(2)) = SWAP4
    /\ depth = 7

\* ------------------------------------------------------------------------
\* C8: in every row of the trace, every user cell at an index >= the depth
\* of that row is zero; after a left-shifting opcode (ASSERT, DROP, DROP4,
\* ADD, MUL, EQ, CHOOSE, CHOOSE2) the cells vacated at the bottom of the
\* stack are zero in the next row and the depth has gone down by exactly
\* the opcode's shift amount.
\* ------------------------------------------------------------------------
LeftShift(op) ==
    IF op \in {ASSERT, DROP, ADD, MUL, EQ} THEN 1
    ELSE IF op = OP_CHOOSE THEN 2
    ELSE IF op \in {DROP4, CHOOSE2} THEN 4
    ELSE 0

C8_ZeroBeyondDepth ==
    Built =>
        /\ \A r \in 0..(RowsWritten - 1) :
           \A j \in 0..(Len(user_registers) - 1) :
              j >= DepthAt(r) => Cell(j, r) = ZERO
        /\ \A c \in 0..(Cycles - 1) :
              LeftShift(OpAt(c)) > 0 =>
                  /\ DepthAt(c + 1) = DepthAt(c) - LeftShift(OpAt(c))
                  /\ \A j \in DepthAt(c + 1)..(DepthAt(c) - 1) :
                         Cell(j, c + 1) = ZERO

\* a DROP4 that vacates four nonzero cells, then a DROP
C8_Witness ==
    /\ pc = "done"
    /\ executed = <<BEGIN, DROP4, DROP>>
    /\ public_inputs = <<1, 2, 0, 1, 2, 0, 1, 2>>
    /\ Cell(0, 3) = 0 /\ Cell(1, 3) = 1 /\ Cell(2, 3) = 2 /\ Cell(3, 3) = 0
    /\ Cell(7, 1) = 2 /\ Cell(7, 2) = 0

\* ------------------------------------------------------------------------
\* C9: row 0 of the trace holds the public inputs in the first user cells
\* (user[j] = public[j] for j < |public|), every other user cell and every
\* aux cell of row 0 is zero, and the initial depth and max_depth both
\* equal |public|.
\* ------------------------------------------------------------------------
PublicAt(j) == IF j < Len(public_inputs) THEN public_inputs[j + 1] ELSE ZERO

C9_RowZero ==
    Built =>
        /\ Len(user_registers) >= Len(public_inputs)
        /\ \A j \in 0..(Len(user_registers) - 1) : Cell(j, 0) = PublicAt(j)
        /\ \A j \in 0..(AUX_WIDTH - 1) : AuxCell(j, 0) = ZERO
        /\ DepthAt(0) = Len(public_inputs)
        /\ (pc = "run" /\ Cycles = 0) =>
              (depth = Len(public_inputs) /\ max_depth = Len(public_inputs))
        /\ pc = "done" =>
              /\ Len(registers) >= AUX_WIDTH + Len(public_inputs)
              /\ \A j \in 0..(Len(registers) - AUX_WIDTH - 1) :
                     registers[AUX_WIDTH + j + 1][0] = PublicAt(j)
              /\ \A j \in 0..(AUX_WIDTH - 1) : registers[j + 1][0] = ZERO

\* a returned trace of three public inputs, EQ having written an aux cell
C9_Witness ==
    /\ pc = "done"
    /\ public_inputs = <<2, 0, 1>>
    /\ executed = <<BEGIN, EQ, NEG>>
    /\ AuxCell(0, 1) # ZERO
    /\ Cell(0, 0) = 2 /\ Cell(2, 0) = 1 /\ Cell(3, 0) = 0

\* ------------------------------------------------------------------------
\* C10: ADD (MUL likewise, with the field multiplication) on a stack of
\* depth >= 2 sets the next user[0] to old[0] + old[1] in the field, moves
\* old[j] for j >= 2 to index j-1, zeroes the vacated bottom cell, lowers
\* depth by one and leaves max_depth and the aux registers untouched; on a
\* stack of depth < 2 it fails with stack underflow.
\* ------------------------------------------------------------------------
C10_AddMulStep ==
    (Running /\ CurOp \in {ADD, MUL}) =>
        IF depth < 2 THEN AbortsWith(StackUnderflow)
        ELSE /\ Completes
             /\ i' = i + 1
             /\ NewCell(0, i + 1) =
                   (IF CurOp = ADD
                    THEN (Cell(0, i) + Cell(1, i)) % FieldModulus
                    ELSE (Cell(0, i) * Cell(1, i)) % FieldModulus)
             /\ \A j \in 2..(depth - 1) : NewCell(j - 1, i + 1) = Cell(j, i)
             /\ NewCell(depth - 1, i + 1) = ZERO
             /\ depth' = depth - 1
             /\ max_depth' = max_depth
             /\ aux_registers' = aux_registers

C10_AddMul == [][C10_AddMulStep]_vars

\* 1 * 2 = 2, then 2 + 0 = 2, the fourth input moving up to user[1]
C10_Witness ==
    /\ pc = "done"
    /\ executed = <<BEGIN, MUL, ADD>>
    /\ public_inputs = <<1, 2, 0, 1>>
    /\ Cell(0, 2) = 2 /\ Cell(0, 3) = 2 /\ Cell(1, 3) = 1 /\ Cell(2, 3) = 0
    /\ depth = 2 /\ max_depth = 4

\* ------------------------------------------------------------------------
\* C11: CHOOSE on a stack of depth >= 3 reads the condition old[2]: for 1
\* the next user[0] is old[0], for 0 it is old[1], for any other value the
\* execution fails as non-binary; on success old[j] for j >= 3 moves to
\* j-2, the two vacated cells are zero and depth goes down by 2.  CHOOSE2
\* on a stack of depth >= 6 reads the condition old[4] and leaves
\* (old[0], old[1]) or (old[2], old[3]) in the first two cells, old[j] for
\* j >= 6 moving to j-4, the vacated cells zero, depth going down by 4.
\* ------------------------------------------------------------------------
C11_ChooseStep ==
    (Running /\ CurOp = OP_CHOOSE /\ depth >= 3) =>
        LET condition == Cell(2, i)
        IN IF condition \notin {0, 1} THEN AbortsWith(NonBinary)
           ELSE /\ Completes
                /\ i' = i + 1
                /\ NewCell(0, i + 1) =
                      (IF condition = 1 THEN Cell(0, i) ELSE Cell(1, i))
                /\ \A j \in 3..(depth - 1) : NewCell(j - 2, i + 1) = Cell(j, i)
                /\ \A j \in (depth - 2)..(depth - 1) : NewCell(j, i + 1) = ZERO
                /\ depth' = depth - 2

C11_Choose2Step ==
    (Running /\ CurOp = CHOOSE2 /\ depth >= 6) =>
        LET condition == Cell(4, i)
        IN IF condition \notin {0, 1} THEN AbortsWith(NonBinary)
           ELSE /\ Completes
                /\ i' = i + 1
                /\ NewCell(0, i + 1) =
                      (IF condition = 1 THEN Cell(0, i) ELSE Cell(2, i))
                /\ NewCell(1, i + 1) =
                      (IF condition = 1 THEN Cell(1, i) ELSE Cell(3, i))
                /\ \A j \in 6..(depth - 1) : NewCell(j - 4, i + 1) = Cell(j, i)
                /\ \A j \in (depth - 4)..(depth - 1) : NewCell(j, i + 1) = ZERO
                /\ depth' = depth - 4

C11_Choose == [][C11_ChooseStep /\ C11_Choose2Step]_vars

\* CHOOSE on condition 0 takes old[1] = 2, CHOOSE2 on condition 1 keeps the
\* first pair and brings old[6] up to user[2]
C11_Witness ==
    /\ pc = "done"
    /\ executed = <<BEGIN, OP_CHOOSE, CHOOSE2>>
    /\ public_inputs = <<1, 2, 0, 1, 2, 0, 1, 2, 0>>
    /\ Cell(0, 2) = 2 /\ Cell(1, 2) = 1 /\ Cell(4, 2) = 1 /\ Cell(6, 2) = 0
    /\ Cell(0, 3) = 2 /\ Cell(1, 3) = 1 /\ Cell(2, 3) = 0 /\ Cell(3, 3) = 0
    /\ depth = 3

\* ------------------------------------------------------------------------
\* C12: EQ at step s on a stack of depth >= 2 writes aux[0] of row s (the
\* current row) to 1 if old[0] = old[1] and to the inverse of
\* old[0] - old[1] otherwise, writes user[0] of row s+1 to 1 if equal and 0
\* otherwise, shifts the remaining cells left by one and lowers depth by
\* one.  So (old[0] - old[1]) * aux[0] = 1 - next user[0] on every EQ row.
\* ------------------------------------------------------------------------
C12_EqStep ==
    (Running /\ CurOp = EQ /\ depth >= 2) =>
        LET x == Cell(0, i)
            y == Cell(1, i)
            diff == (x - y) % FieldModulus
        IN /\ Completes
           /\ i' = i + 1
           /\ IF x = y THEN NewAuxCell(0, i) = 1
                       ELSE (diff * NewAuxCell(0, i)) % FieldModulus = 1
           /\ NewCell(0, i + 1) = (IF x = y THEN 1 ELSE 0)
           /\ \A j \in 2..(depth - 1) : NewCell(j - 1, i + 1) = Cell(j, i)
           /\ NewCell(depth - 1, i + 1) = ZERO
           /\ depth' = depth - 1
           /\ \A r \in 0..(trace_length - 1) :
                  r # i => NewAuxCell(0, r) = AuxCell(0, r)
           /\ aux_registers'[2] = aux_registers[2]

C12_EqRows ==
    Built =>
        \A c \in 0..(Cycles - 1) :
            OpAt(c) = EQ =>
                (((Cell(0, c) - Cell(1, c)) % FieldModulus) * AuxCell(0, c))
                    % FieldModulus
                = (1 - Cell(0, c + 1)) % FieldModulus

C12_Eq == [][C12_EqStep]_vars /\ [](C12_EqRows)

\* EQ on the equal pair a DUP made
C12_WitnessEqual ==
    /\ pc = "done"
    /\ executed = <<BEGIN, DUP, EQ>>
    /\ public_inputs = <<2, 0, 1>>
    /\ AuxCell(0, 2) = 1 /\ Cell(0, 3) = 1 /\ Cell(1, 3) = 0 /\ depth = 3

\* EQ on the unequal pair (1, 2): aux[0] of the EQ row is the inverse of -1
C12_Witness ==
    /\ pc = "done"
    /\ executed = <<BEGIN, EQ, NOOP>>
    /\ public_inputs = <<1, 2, 0>>
    /\ AuxCell(0, 1) = 28 /\ Cell(0, 2) = 0 /\ Cell(1, 2) = 0 /\ depth = 2

\* ------------------------------------------------------------------------
\* tests::cmp: a StackTrace built by init_stack over the public inputs
\* [0, 0, 0, 0, 0, 0, a, b], the bits of a and of b as the two secret
\* inputs, most significant first, and cmp called at steps 0..127.
\* ------------------------------------------------------------------------
\* number of cmp calls of the test, and the trace length it allocates
CMP_CYCLES == 128
CMP_TRACE_LENGTH == 256

\* positions (1 = most significant) at which the bit strings tried differ
\* from the all-zero string
BitPositions == {1, CMP_CYCLES - 1, CMP_CYCLES}

SparseBits(at) ==
    [k \in 1..CMP_CYCLES |-> IF k \in BitPositions THEN at[k] ELSE 0]

\* 2^e in the field
RECURSIVE Pow2InField(_)
Pow2InField(e) ==
    IF e = 0 THEN 1
    ELSE IF e % 2 = 1 THEN (2 * Pow2InField(e - 1)) % FieldModulus
    ELSE LET h == Pow2InField(e \div 2) IN (h * h) % FieldModulus

\* the number a bit string spells, most significant bit first, in the field
RECURSIVE BitsValue(_)
BitsValue(q) ==
    IF q = <<>> THEN 0
    ELSE IF Len(q) = 1 THEN q[1] % FieldModulus
    ELSE LET half == Len(q) \div 2
             high == SubSeq(q, 1, half)
             low == SubSeq(q, half + 1, Len(q))
         IN (BitsValue(high) * Pow2InField(Len(low)) + BitsValue(low))
                % FieldModulus

\* a < b for the numbers two bit strings of one length spell
BitsLess(p, q) ==
    \E k \in 1..Len(p) :
        /\ p[k] < q[k]
        /\ \A m \in 1..(k - 1) : p[m] = q[m]

\* the StackTrace the tests' init_stack helper builds
init_stack(pub, secret_inputs_a_, secret_inputs_b_, length) ==
    [ aux_registers   |-> init_aux_registers(length),
      user_registers  |->
          [j \in 1..MIN_USER_STACK_DEPTH |->
              [r \in 0..(length - 1) |->
                  IF r = 0 /\ j <= Len(pub) THEN pub[j] ELSE ZERO]],
      secret_inputs_a |-> Reverse(secret_inputs_a_),
      secret_inputs_b |-> Reverse(secret_inputs_b_),
      max_depth       |-> Len(pub),
      depth           |-> Len(pub),
      err             |-> Ok ]

\* The test drives the StackTrace directly: `program` only carries the
\* trace length the registers were allocated with.
InitCmp ==
    /\ program = [k \in 1..CMP_TRACE_LENGTH |-> CMP]
    /\ extension_factor = EXTENSION_FACTOR
    /\ \E av \in [BitPositions -> 0..MaxInputValue] :
       \E bv \in [BitPositions -> 0..MaxInputValue] :
          /\ secret_a = SparseBits(av)
          /\ secret_b = SparseBits(bv)
    /\ public_inputs =
          <<0, 0, 0, 0, 0, 0, BitsValue(secret_a), BitsValue(secret_b)>>
    /\ LET s == init_stack(public_inputs, secret_a, secret_b,
                           CMP_TRACE_LENGTH)
       IN /\ aux_registers = s.aux_registers
          /\ user_registers = s.user_registers
          /\ secret_inputs_a = s.secret_inputs_a
          /\ secret_inputs_b = s.secret_inputs_b
          /\ max_depth = s.max_depth
          /\ depth = s.depth
          /\ depth_at = <<s.depth>>
    /\ i = 0
    /\ pc = "run"
    /\ error = Ok
    /\ registers = <<>>
    /\ executed = <<>>
    /\ FlowIdle
    /\ PolyIdle

\* for i in 0..128 { stack.cmp(i); }
CmpCycle == pc = "run" /\ i < CMP_CYCLES /\ Commit(cmp(Stack, i), <<CMP>>)

NextCmp == CmpCycle

SpecCmp == InitCmp /\ [][NextCmp]_vars

\* all the cmp calls of the test have returned
CmpDone == pc = "run" /\ i = CMP_CYCLES

C14_CmpStep ==
    (pc = "run" /\ i < CMP_CYCLES) =>
        LET a_bit == secret_a[i + 1]
            b_bit == secret_b[i + 1]
            weight == Pow2InField(127 - (i % 128))
        IN IF a_bit \notin {0, 1} \/ b_bit \notin {0, 1}
           THEN AbortsWith(NonBinary)
           ELSE /\ Completes
                /\ i' = i + 1
                /\ Len(secret_inputs_a') = Len(secret_inputs_a) - 1
                /\ Len(secret_inputs_b') = Len(secret_inputs_b) - 1
                /\ NewCell(0, i + 1) = a_bit
                /\ NewCell(1, i + 1) = b_bit
                /\ NewCell(4, i + 1) = (Cell(4, i) + a_bit * weight) % FieldModulus
                /\ NewCell(5, i + 1) = (Cell(5, i) + b_bit * weight) % FieldModulus
                /\ \A j \in 6..(depth - 1) : NewCell(j, i + 1) = Cell(j, i)
                /\ depth' = depth

C14_Accumulated ==
    CmpDone =>
        /\ Cell(4, CMP_CYCLES) = BitsValue(secret_a)
        /\ Cell(5, CMP_CYCLES) = BitsValue(secret_b)
        /\ Cell(6, CMP_CYCLES) = Cell(6, 0)
        /\ Cell(7, CMP_CYCLES) = Cell(7, 0)
        /\ secret_inputs_a = <<>> /\ secret_inputs_b = <<>>
        /\ depth = 8

C14_Accumulate == [][C14_CmpStep]_vars /\ [](C14_Accumulated)

\* a = 2^127 + 1 and b = 2^127 + 2, accumulated in the field
C14_Witness ==
    /\ CmpDone
    /\ secret_a[1] = 1 /\ secret_a[CMP_CYCLES - 1] = 0
    /\ secret_a[CMP_CYCLES] = 1
    /\ secret_b[1] = 1 /\ secret_b[CMP_CYCLES - 1] = 1
    /\ secret_b[CMP_CYCLES] = 0
    /\ Cell(4, CMP_CYCLES) = (Pow2InField(127) + 1) % FieldModulus
    /\ Cell(5, CMP_CYCLES) = (Pow2InField(127) + 2) % FieldModulus
    /\ Cell(4, CMP_CYCLES) # Cell(5, CMP_CYCLES)

\* ------------------------------------------------------------------------
\* C15: INV on a stack of depth >= 1 fails (division by zero) when old[0]
\* is 0 and writes no next row; otherwise the next user[0] is the inverse
\* of old[0] (old[0] * new[0] = 1), every other user cell, depth and
\* max_depth are unchanged, and INV applied twice restores the top cell.
\* ------------------------------------------------------------------------
C15_InvStep ==
    (Running /\ CurOp = INV /\ depth >= 1) =>
        IF Cell(0, i) = 0 THEN AbortsWith(DivisionByZero)
        ELSE /\ Completes
             /\ i' = i + 1
             /\ (Cell(0, i) * NewCell(0, i + 1)) % FieldModulus = 1
             /\ \A j \in 1..(Len(user_registers) - 1) :
                    NewCell(j, i + 1) = Cell(j, i)
             /\ Len(user_registers') = Len(user_registers)
             /\ depth' = depth
             /\ max_depth' = max_depth

C15_InvTwice ==
    Built =>
        \A c \in 0..(Cycles - 2) :
            (OpAt(c) = INV /\ OpAt(c + 1) = INV) => Cell(0, c + 2) = Cell(0, c)

C15_Inv == [][C15_InvStep]_vars /\ [](C15_InvTwice)

\* 2 inverted to 15, and back
C15_Witness ==
    /\ pc = "done"
    /\ executed = <<BEGIN, INV, INV>>
    /\ public_inputs = <<2, 0, 1>>
    /\ Cell(0, 2) = 15 /\ Cell(0, 3) = 2 /\ Cell(1, 3) = 0 /\ Cell(2, 3) = 1

\* INV refused on a zero top cell
C15_WitnessZero ==
    /\ pc = "abort"
    /\ error = DivisionByZero
    /\ executed = <<BEGIN>>
    /\ Cell(0, 1) = 0 /\ depth >= 1
    /\ \A j \in 0..(Len(user_registers) - 1) : Cell(j, 2) = 0

\* ------------------------------------------------------------------------
\* C16: NOT on a stack of depth >= 1 fails as non-binary when old[0] is
\* neither 0 nor 1; otherwise the next user[0] is 1 - old[0], every other
\* cell and the depth are unchanged, and two consecutive NOTs restore the
\* top cell.
\* ------------------------------------------------------------------------
C16_NotStep ==
    (Running /\ CurOp = NOT /\ depth >= 1) =>
        IF Cell(0, i) \notin {0, 1} THEN AbortsWith(NonBinary)
        ELSE /\ Completes
             /\ i' = i + 1
             /\ NewCell(0, i + 1) = 1 - Cell(0, i)
             /\ \A j \in 1..(Len(user_registers) - 1) :
                    NewCell(j, i + 1) = Cell(j, i)
             /\ Len(user_registers') = Len(user_registers)
             /\ depth' = depth

C16_NotTwice ==
    Built =>
        \A c \in 0..(Cycles - 2) :
            (OpAt(c) = NOT /\ OpAt(c + 1) = NOT) => Cell(0, c + 2) = Cell(0, c)

C16_Not == [][C16_NotStep]_vars /\ [](C16_NotTwice)

\* 1 negated to 0, and back
C16_Witness ==
    /\ pc = "done"
    /\ executed = <<BEGIN, NOT, NOT>>
    /\ public_inputs = <<1, 2, 0>>
    /\ Cell(0, 2) = 0 /\ Cell(0, 3) = 1 /\ Cell(1, 3) = 2 /\ Cell(2, 3) = 0

\* NOT refused on a top cell of 2
C16_WitnessNonBinary ==
    /\ pc = "abort"
    /\ error = NonBinary
    /\ executed = <<BEGIN>>
    /\ as_u8(Slot(1)) = NOT
    /\ Cell(0, 1) = 2

\* ------------------------------------------------------------------------
\* Decoder flow constraints (constraints/decoder2/flow_ops.rs)
\* ------------------------------------------------------------------------
\* largest value of a state cell tried
MaxFlowValue == 1

SPONGE_WIDTH == 4

\* are_equal(a, b) and is_zero(a): the value that is zero when the
\* constraint holds
are_equal(a, b) == f_sub(a, b)
is_zero(a) == a

\* agg_constraint that overwrites the entry
agg_constraint_overwrite(res, index, flag, value) ==
    [res EXCEPT ![index + 1] = f_mul(flag, value)]

\* result[index] += flag * value
agg_constraint(res, index, flag, value) ==
    [res EXCEPT ![index + 1] = f_add(res[index + 1], f_mul(flag, value))]

\* &mut result[from..to]
Slice(res, from, to) == SubSeq(res, from + 1, to)

\* result with result[from..from + len] replaced by the slice written
Unslice(res, from, part) ==
    [k \in 1..Len(res) |->
        IF k > from /\ k <= from + Len(part) THEN part[k - from] ELSE res[k]]

\* for i in from..to { result.agg_constraint(i, op_flag,
\*     are_equal(old_stack[i + shift], new_stack[i])) }
RECURSIVE agg_stack_range(_, _, _, _, _, _, _)
agg_stack_range(res, old_stack, new_stack, flag, shift, from, to) ==
    IF from >= to THEN res
    ELSE agg_stack_range(
             agg_constraint(res, from, flag,
                            are_equal(old_stack[from + shift + 1],
                                      new_stack[from + 1])),
             old_stack, new_stack, flag, shift, from + 1, to)

\* enforce_stack_pop that leaves the slot vacated unconstrained
enforce_stack_pop_open(res, old_stack, new_stack, flag) ==
    agg_stack_range(res, old_stack, new_stack, flag, 1, 0, Len(res) - 1)

enforce_stack_pop(res, old_stack, new_stack, flag) ==
    LET last_idx == Len(res) - 1
        shifted == agg_stack_range(res, old_stack, new_stack, flag, 1, 0,
                                   last_idx)
    IN agg_constraint(shifted, last_idx, flag, is_zero(new_stack[last_idx + 1]))

\* enforce_stack_push that compares the slots without the shift
enforce_stack_push_unshifted(res, old_stack, new_stack, push_value, flag) ==
    LET pushed == agg_constraint(res, 0, flag,
                                 are_equal(push_value, new_stack[1]))
    IN agg_stack_range(pushed, old_stack, new_stack, flag, 0, 1, Len(res))

enforce_stack_push(res, old_stack, new_stack, push_value, flag) ==
    LET pushed == agg_constraint(res, 0, flag,
                                 are_equal(push_value, new_stack[1]))
    IN agg_stack_range(pushed, old_stack, new_stack, flag, -1, 1, Len(res))

enforce_stack_copy(res, old_stack, new_stack, flag) ==
    agg_stack_range(res, old_stack, new_stack, flag, 0, 0, Len(res))

\* the context stack and loop stack part shared by the three evaluators:
\* `ctx` is the context-stack slice after its constraint was aggregated
ctx_and_loop(res, cur, nxt, flag, ctx) ==
    LET ctx_stack_end == SPONGE_WIDTH + Len(cur.ctx_stack)
        with_ctx == Unslice(res, SPONGE_WIDTH, ctx)
        loop_result == Slice(with_ctx, ctx_stack_end,
                             ctx_stack_end + Len(cur.loop_stack))
    IN Unslice(with_ctx, ctx_stack_end,
               enforce_stack_copy(loop_result, cur.loop_stack, nxt.loop_stack,
                                  flag))

\* The evaluators give the result vector they leave and whether they
\* panicked: on an empty context stack enforce_stack_push indexes an empty
\* slice, and enforce_tend / enforce_fend read ctx_stack()[0].
Evaluation(res, err) == [result |-> res, err |-> err]

enforce_begin(res, cur, nxt, flag) ==
    LET next_sponge == nxt.sponge
        r0 == agg_constraint(res, 0, flag, is_zero(next_sponge[1]))
        r1 == agg_constraint(r0, 1, flag, is_zero(next_sponge[2]))
        r2 == agg_constraint(r1, 2, flag, is_zero(next_sponge[3]))
        r3 == agg_constraint(r2, 3, flag, is_zero(next_sponge[4]))
        parent_hash == cur.sponge[1]
        ctx_stack_end == SPONGE_WIDTH + Len(cur.ctx_stack)
        ctx_result == Slice(r3, SPONGE_WIDTH, ctx_stack_end)
    IN IF Len(ctx_result) = 0 THEN Evaluation(r3, IndexOutOfBounds)
       ELSE Evaluation(
                ctx_and_loop(r3, cur, nxt, flag,
                             enforce_stack_push(ctx_result, cur.ctx_stack,
                                                nxt.ctx_stack, parent_hash,
                                                flag)),
                Ok)

\* enforce_tend that requires the block hash in lane 2, as enforce_fend
enforce_tend_lane2(res, cur, nxt, flag) ==
    IF Len(cur.ctx_stack) = 0 THEN Evaluation(res, IndexOutOfBounds)
    ELSE LET parent_hash == cur.ctx_stack[1]
             block_hash == cur.sponge[1]
             next_sponge == nxt.sponge
             r0 == agg_constraint(res, 0, flag,
                                  are_equal(parent_hash, next_sponge[1]))
             r1 == agg_constraint(r0, 2, flag,
                                  are_equal(block_hash, next_sponge[3]))
             r3 == agg_constraint(r1, 3, flag, is_zero(next_sponge[4]))
             ctx_stack_end == SPONGE_WIDTH + Len(cur.ctx_stack)
             ctx_result == Slice(r3, SPONGE_WIDTH, ctx_stack_end)
         IN Evaluation(
                ctx_and_loop(r3, cur, nxt, flag,
                             enforce_stack_pop(ctx_result, cur.ctx_stack,
                                               nxt.ctx_stack, flag)),
                Ok)

enforce_tend(res, cur, nxt, flag) ==
    IF Len(cur.ctx_stack) = 0 THEN Evaluation(res, IndexOutOfBounds)
    ELSE LET parent_hash == cur.ctx_stack[1]
             block_hash == cur.sponge[1]
             next_sponge == nxt.sponge
             r0 == agg_constraint(res, 0, flag,
                                  are_equal(parent_hash, next_sponge[1]))
             r1 == agg_constraint(r0, 1, flag,
                                  are_equal(block_hash, next_sponge[2]))
             r3 == agg_constraint(r1, 3, flag, is_zero(next_sponge[4]))
             ctx_stack_end == SPONGE_WIDTH + Len(cur.ctx_stack)
             ctx_result == Slice(r3, SPONGE_WIDTH, ctx_stack_end)
         IN Evaluation(
                ctx_and_loop(r3, cur, nxt, flag,
                             enforce_stack_pop(ctx_result, cur.ctx_stack,
                                               nxt.ctx_stack, flag)),
                Ok)

enforce_fend(res, cur, nxt, flag) ==
    IF Len(cur.ctx_stack) = 0 THEN Evaluation(res, IndexOutOfBounds)
    ELSE LET parent_hash == cur.ctx_stack[1]
             block_hash == cur.sponge[1]
             next_sponge == nxt.sponge
             r0 == agg_constraint(res, 0, flag,
                                  are_equal(parent_hash, next_sponge[1]))
             r2 == agg_constraint(r0, 2, flag,
                                  are_equal(block_hash, next_sponge[3]))
             r3 == agg_constraint(r2, 3, flag, is_zero(next_sponge[4]))
             ctx_stack_end == SPONGE_WIDTH + Len(cur.ctx_stack)
             ctx_result == Slice(r3, SPONGE_WIDTH, ctx_stack_end)
         IN Evaluation(
                ctx_and_loop(r3, cur, nxt, flag,
                             enforce_stack_pop(ctx_result, cur.ctx_stack,
                                               nxt.ctx_stack, flag)),
                Ok)

\* ------------------------------------------------------------------------
\* A flow constraint evaluation: one evaluator applied to a pair of states
\* ------------------------------------------------------------------------
FlowValues == 0..MaxFlowValue
CtxDepths == {0, 1, 2}
LoopDepths == {0, 1}

\* <<op_flag, value the result vector is filled with, entries the result
\* vector has beyond the constraints of the evaluator>>
FlowSettings == {<<1, 0, 0>>, <<1, 0, 1>>, <<0, 3, 1>>, <<2, 3, 1>>}

\* The sponge lanes 1..3 of the current state are read by no evaluator and
\* keep the values of the tests.
InitFlow ==
    /\ \E cd \in CtxDepths, ld \in LoopDepths, setting \in FlowSettings :
          /\ \E h \in FlowValues, c \in [1..cd -> FlowValues],
                l \in [1..ld -> FlowValues] :
                current = TraceState(<<h, 5, 7, 9>>, c, l)
          /\ \E s \in [1..SPONGE_WIDTH -> FlowValues],
                c \in [1..cd -> FlowValues], l \in [1..ld -> FlowValues] :
                next = TraceState(s, c, l)
          /\ op_flag = setting[1]
          /\ result = [k \in 1..(SPONGE_WIDTH + cd + ld + setting[3]) |->
                          setting[2]]
    /\ evaluated = ""
    /\ program = <<>>
    /\ extension_factor = EXTENSION_FACTOR
    /\ public_inputs = <<>>
    /\ secret_a = <<>>
    /\ secret_b = <<>>
    /\ StackNotBuilt
    /\ PolyIdle

\* the evaluator has returned, or panicked
Evaluate(r, name) ==
    /\ result' = r.result
    /\ evaluated' = (IF r.err = Ok THEN name ELSE "panic")
    /\ UNCHANGED <<trace, deep, current, next, op_flag>>

EvalBegin ==
    /\ evaluated = ""
    /\ Evaluate(enforce_begin(result, current, next, op_flag), "begin")

EvalTend ==
    /\ evaluated = ""
    /\ Evaluate(enforce_tend(result, current, next, op_flag), "tend")

EvalFend ==
    /\ evaluated = ""
    /\ Evaluate(enforce_fend(result, current, next, op_flag), "fend")

NextFlow == EvalBegin \/ EvalTend \/ EvalFend

SpecFlow == InitFlow /\ [][NextFlow]_vars

\* vocabulary of the flow properties
CtxDepth == Len(current.ctx_stack)
LoopDepth == Len(current.loop_stack)
Constrained == SPONGE_WIDTH + CtxDepth + LoopDepth
Diff(a, b) == (a - b) % FieldModulus
AllZero(q) == \A k \in 1..Len(q) : q[k] = 0
FlowStep(name) == evaluated = "" /\ evaluated' = name
FromZero == op_flag = 1 /\ AllZero(result)

\* result entry k (0-based) of the loop stack: unchanged
LoopValue(k) ==
    Diff(current.loop_stack[k - SPONGE_WIDTH - CtxDepth + 1],
         next.loop_stack[k - SPONGE_WIDTH - CtxDepth + 1])

\* the value enforce_begin is to aggregate at entry k (0-based)
BeginValue(k) ==
    IF k < SPONGE_WIDTH THEN next.sponge[k + 1]
    ELSE IF k = SPONGE_WIDTH
    THEN Diff(current.sponge[1], next.ctx_stack[1])
    ELSE IF k < SPONGE_WIDTH + CtxDepth
    THEN Diff(current.ctx_stack[k - SPONGE_WIDTH],
              next.ctx_stack[k - SPONGE_WIDTH + 1])
    ELSE LoopValue(k)

\* the value enforce_tend and enforce_fend are to aggregate at entry k
EndValue(k) ==
    IF k = 0 THEN Diff(current.ctx_stack[1], next.sponge[1])
    ELSE IF k \in {1, 2} THEN Diff(current.sponge[1], next.sponge[k + 1])
    ELSE IF k = 3 THEN next.sponge[4]
    ELSE IF k < SPONGE_WIDTH + CtxDepth - 1
    THEN Diff(current.ctx_stack[k - SPONGE_WIDTH + 2],
              next.ctx_stack[k - SPONGE_WIDTH + 1])
    ELSE IF k = SPONGE_WIDTH + CtxDepth - 1 THEN next.ctx_stack[CtxDepth]
    ELSE LoopValue(k)

\* the context stack after a push of v
PushedCtx(v) ==
    [k \in 1..CtxDepth |-> IF k = 1 THEN v ELSE current.ctx_stack[k - 1]]

\* ------------------------------------------------------------------------
\* C17: with op_flag = 1 and a zero-initialised result, enforce_begin
\* returns the all-zero vector exactly when the next sponge is zero in its
\* 4 lanes, the next context stack is the current one with the parent hash
\* (current sponge[0]) pushed on top, and the next loop stack equals the
\* current one; an equality that is violated leaves its difference, which
\* is nonzero, in the corresponding entry.
\* ------------------------------------------------------------------------
C17_BeginStep ==
    (FlowStep("begin") /\ FromZero) =>
        /\ \A k \in 0..(Constrained - 1) : result'[k + 1] = BeginValue(k)
        /\ AllZero(result') <=>
              /\ AllZero(next.sponge)
              /\ next.ctx_stack = PushedCtx(current.sponge[1])
              /\ next.loop_stack = current.loop_stack

C17_Begin == [][C17_BeginStep]_vars

\* a begin transition accepted on a context stack of two slots and a loop
\* stack of one, the parent hash being 1
C17_Witness ==
    /\ evaluated = "begin"
    /\ op_flag = 1
    /\ AllZero(result)
    /\ current.sponge[1] = 1
    /\ current.ctx_stack = <<1, 0>>
    /\ next.ctx_stack = <<1, 1>>
    /\ current.loop_stack = <<1>>

\* ------------------------------------------------------------------------
\* C18: enforce_tend and enforce_fend both require next sponge[0] = current
\* ctx_stack[0] (the parent hash) and next sponge[3] = 0; enforce_tend
\* requires next sponge[1] = current sponge[0] (the block hash) and leaves
\* result[2] untouched, enforce_fend requires next sponge[2] = the block
\* hash and leaves result[1] untouched.  A transition enforce_tend accepts
\* is accepted by enforce_fend only if next sponge[2] is the block hash too.
\* ------------------------------------------------------------------------
C18_TendStep ==
    (FlowStep("tend") /\ FromZero) =>
        /\ result'[1] = Diff(current.ctx_stack[1], next.sponge[1])
        /\ result'[2] = Diff(current.sponge[1], next.sponge[2])
        /\ result'[3] = result[3]
        /\ result'[4] = next.sponge[4]
        /\ AllZero(result') =>
              (AllZero(enforce_fend(result, current, next, op_flag).result)
                  <=> next.sponge[3] = current.sponge[1])

C18_FendStep ==
    (FlowStep("fend") /\ FromZero) =>
        /\ result'[1] = Diff(current.ctx_stack[1], next.sponge[1])
        /\ result'[2] = result[2]
        /\ result'[3] = Diff(current.sponge[1], next.sponge[3])
        /\ result'[4] = next.sponge[4]

C18_Lanes == [][C18_TendStep /\ C18_FendStep]_vars

\* a transition enforce_tend accepts and enforce_fend does not: the block
\* hash 1 is in lane 1 of the next sponge and not in lane 2
C18_Witness ==
    /\ evaluated = "tend"
    /\ op_flag = 1
    /\ AllZero(result)
    /\ current.sponge[1] = 1
    /\ current.ctx_stack = <<0, 1>>
    /\ next.sponge = <<0, 1, 0, 0>>
    /\ next.ctx_stack = <<1, 0>>

\* ------------------------------------------------------------------------
\* C19: the stack-pop constraint enforce_tend and enforce_fend put on the
\* context stack evaluates to all zeros (op_flag = 1, zero-initialised
\* result) exactly when new[i] = old[i+1] for every i and the new
\* top-of-stack slot, index 0, the slot the parent hash is read from, is
\* zero.
\* ------------------------------------------------------------------------
CtxPart(res) == SubSeq(res, SPONGE_WIDTH + 1, SPONGE_WIDTH + CtxDepth)

Shifted ==
    \A k \in 1..(CtxDepth - 1) : next.ctx_stack[k] = current.ctx_stack[k + 1]

C19_OriginalStep ==
    ((FlowStep("tend") \/ FlowStep("fend")) /\ FromZero) =>
        (AllZero(CtxPart(result')) <=> (Shifted /\ next.ctx_stack[1] = 0))

C19_Original == [][C19_OriginalStep]_vars

\* C19, as the evaluators have it: the constraint is all zeros exactly when
\* new[i] = old[i+1] for every i below the last index and the slot at the
\* last index, the deepest one, which the pop vacates, is zero; index 0,
\* the top, takes old[1].
C19_PopStep ==
    ((FlowStep("tend") \/ FlowStep("fend")) /\ FromZero) =>
        /\ AllZero(CtxPart(result')) <=>
              (Shifted /\ next.ctx_stack[CtxDepth] = 0)
        /\ \A k \in SPONGE_WIDTH..(SPONGE_WIDTH + CtxDepth - 1) :
              result'[k + 1] = EndValue(k)

C19_Pop == [][C19_PopStep]_vars

\* a pop accepted that leaves a nonzero value on top of the context stack
C19_Witness ==
    /\ evaluated = "tend"
    /\ op_flag = 1
    /\ current.ctx_stack = <<0, 1>>
    /\ next.ctx_stack = <<1, 0>>
    /\ AllZero(CtxPart(result))
    /\ result[1] = 0

\* ------------------------------------------------------------------------
\* C20: enforce_begin, enforce_tend and enforce_fend only accumulate: each
\* entry they touch becomes result[i] + op_flag * value in the field; with
\* op_flag = 0 the result vector is unchanged for any pair of states, and
\* the entries at indices >= 4 + ctx_stack length + loop_stack length are
\* not modified for any op_flag.
\* ------------------------------------------------------------------------
Touched(name, k) ==
    /\ k < Constrained
    /\ ~(name = "tend" /\ k = 2)
    /\ ~(name = "fend" /\ k = 1)

FlowValue(name, k) == IF name = "begin" THEN BeginValue(k) ELSE EndValue(k)

C20_AccumulateStep ==
    \A name \in {"begin", "tend", "fend"} :
        FlowStep(name) =>
            /\ Len(result') = Len(result)
            /\ \A k \in 0..(Len(result) - 1) :
                  result'[k + 1] =
                      (IF Touched(name, k)
                       THEN (result[k + 1] + op_flag * FlowValue(name, k))
                                % FieldModulus
                       ELSE result[k + 1])
            /\ op_flag = 0 => result' = result
            /\ current' = current /\ next' = next

C20_Accumulate == [][C20_AccumulateStep]_vars

\* op_flag 2 on a result filled with 3: the parent hash mismatch adds 2,
\* lane 2 and the entry beyond the constraints keep their 3
C20_Witness ==
    /\ evaluated = "tend"
    /\ op_flag = 2
    /\ current.ctx_stack = <<1>>
    /\ next.sponge[1] = 0
    /\ result[1] = 5
    /\ result[3] = 3
    /\ Len(result) = Constrained + 1
    /\ result[Len(result)] = 3


\* ========================================================================
\* ConstraintPoly (stark/constraints/constraint_poly.rs)
\* ========================================================================
\* coefficient vectors have at most MaxPolyLength entries, each at most
\* MaxCoefficient; the point z takes the same values
MaxPolyLength == 4
MaxCoefficient == 2

\* crate::stark::MAX_CONSTRAINT_DEGREE; a small value stands for it, so that
\* the lengths tried lie on both sides of it
MAX_CONSTRAINT_DEGREE == 2

BadPolyLength == "poly length must be a power of two"
BadPolyDegree == "expected polynomial of another degree"
BadDomainSize == "domain size must be greater than poly length"

\* polynom::degree_of: the index of the highest nonzero coefficient
degree_of(p) ==
    LET nz == {k \in 1..Len(p) : p[k] # ZERO}
    IN IF nz = {} THEN 0 ELSE (CHOOSE k \in nz : \A l \in nz : l <= k) - 1

\* polynom::eval: the value of p at x, by Horner's rule
RECURSIVE polynom_eval(_, _)
polynom_eval(p, x) ==
    IF p = <<>> THEN ZERO
    ELSE f_add(Head(p), f_mul(x, polynom_eval(Tail(p), x)))

\* the carry of the synthetic division of a by (x - b) once the
\* coefficients k.. (1-based) have been passed, highest first
RECURSIVE syn_div_carry(_, _, _)
syn_div_carry(a, b, k) ==
    IF k > Len(a) THEN ZERO
    ELSE f_add(a[k], f_mul(b, syn_div_carry(a, b, k + 1)))

\* polynom::syn_div_in_place: a becomes its quotient by (x - b), the
\* vector keeping its length (the highest coefficient becomes 0) and the
\* remainder being dropped
syn_div_in_place(a, b) ==
    [k \in 1..Len(a) |-> syn_div_carry(a, b, k + 1)]

\* parallel::mul_acc: a[k] = a[k] + b[k] * c
mul_acc(a, b, c) ==
    [k \in 1..Len(a) |-> f_add(a[k], f_mul(b[k], c))]

\* the primitive root of unity of order n that polynom's transforms use
get_root_of_unity(n) ==
    CHOOSE g \in 1..(FieldModulus - 1) :
        /\ f_exp(g, n) = ONE
        /\ \A m \in 1..(n - 1) : f_exp(g, m) # ONE
        /\ \A h \in 1..(g - 1) :
              ~(f_exp(h, n) = ONE /\ \A m \in 1..(n - 1) : f_exp(h, m) # ONE)

\* polynom::eval_fft_twiddles(.., true): the values, in the order of the
\* domain, of the polynomial whose coefficients the vector holds
eval_fft_twiddles(evaluations) ==
    LET g == get_root_of_unity(Len(evaluations))
    IN [k \in 1..Len(evaluations) |->
           polynom_eval(evaluations, f_exp(g, k - 1))]

get_expected_degree(p) ==
    LET length == Len(p) \div MAX_CONSTRAINT_DEGREE
    IN Len(p) - length

\* ConstraintPoly::new that takes a vector of any length
new_any_length(p, dbg) ==
    IF dbg /\ get_expected_degree(p) # degree_of(p)
    THEN [poly |-> <<>>, err |-> BadPolyDegree]
    ELSE [poly |-> p, err |-> Ok]

\* ConstraintPoly::new; the degree is compared in a build with debug
\* assertions only
new(p, dbg) ==
    IF ~is_power_of_two(Len(p)) THEN [poly |-> <<>>, err |-> BadPolyLength]
    ELSE IF dbg /\ get_expected_degree(p) # degree_of(p)
    THEN [poly |-> <<>>, err |-> BadPolyDegree]
    ELSE [poly |-> p, err |-> Ok]

degree(p) == get_expected_degree(p)

\* ConstraintPoly::eval over a domain of 2 * n points
eval(p, n) ==
    LET domain_size == n * 2
    IN IF ~(domain_size > Len(p))
       THEN [evaluations |-> <<>>, err |-> BadDomainSize]
       ELSE [evaluations |->
                eval_fft_twiddles(
                    [k \in 1..domain_size |-> IF k <= Len(p) THEN p[k] ELSE ZERO]),
             err |-> Ok]

eval_at(p, x) == polynom_eval(p, x)

\* merge_into that accumulates the quotient without the coefficient
merge_into_unscaled(p, res, x, c) ==
    LET z_value == polynom_eval(p, x)
        shifted == [p EXCEPT ![1] = f_sub(p[1], z_value)]
        quotient == syn_div_in_place(shifted, x)
    IN [poly |-> quotient, result |-> mul_acc(res, quotient, ONE),
        z_value |-> z_value]

\* merge_into that divides by (x + z)
merge_into_negated_point(p, res, x, c) ==
    LET z_value == polynom_eval(p, x)
        shifted == [p EXCEPT ![1] = f_sub(p[1], z_value)]
        quotient == syn_div_in_place(shifted, f_neg(x))
    IN [poly |-> quotient, result |-> mul_acc(res, quotient, c),
        z_value |-> z_value]

\* ConstraintPoly::merge_into: the polynomial left in self, the buffer and
\* the value returned
merge_into(p, res, x, c) ==
    LET z_value == polynom_eval(p, x)
        shifted == [p EXCEPT ![1] = f_sub(p[1], z_value)]
        quotient == syn_div_in_place(shifted, x)
    IN [poly |-> quotient, result |-> mul_acc(res, quotient, c),
        z_value |-> z_value]

\* ------------------------------------------------------------------------
\* One ConstraintPoly: built from a vector, then one of its methods called
\* ------------------------------------------------------------------------
CoefficientVectors ==
    UNION { [1..n -> 0..MaxCoefficient] : n \in 0..MaxPolyLength }

\* the transforms take a power-of-two number of twiddles, for a domain the
\* field has a root of unity for
TwiddleCounts ==
    {0} \cup {n \in 1..MaxPolyLength :
                 is_power_of_two(n) /\ (FieldModulus - 1) % (2 * n) = 0}

\* The buffer merge_into accumulates into has the length of the polynomial.
InitPoly ==
    /\ coefficients \in CoefficientVectors
    /\ debug \in BOOLEAN
    /\ z \in 0..MaxCoefficient
    /\ cc \in {0, 1, FieldModulus - 1}
    /\ \E c0 \in {0, 1} :
          composition = [k \in 1..Len(coefficients) |-> c0 * k]
    /\ twiddles \in TwiddleCounts
    /\ poly = <<>>
    /\ returned = <<>>
    /\ called = ""
    /\ program = <<>>
    /\ extension_factor = EXTENSION_FACTOR
    /\ public_inputs = <<>>
    /\ secret_a = <<>>
    /\ secret_b = <<>>
    /\ StackNotBuilt
    /\ FlowIdle

CallNew ==
    /\ called = ""
    /\ LET r == new(coefficients, debug)
       IN /\ poly' = r.poly
          /\ called' = (IF r.err = Ok THEN "new" ELSE "panic")
          /\ returned' = (IF r.err = Ok THEN <<>> ELSE <<r.err>>)
    /\ UNCHANGED <<trace, flow, coefficients, debug, z, cc, composition,
                   twiddles>>

CallDegree ==
    /\ called = "new"
    /\ returned' = <<degree(poly)>>
    /\ called' = "degree"
    /\ UNCHANGED <<trace, flow, coefficients, debug, poly, z, cc, composition,
                   twiddles>>

CallEval ==
    /\ called = "new"
    /\ LET r == eval(poly, twiddles)
       IN /\ returned' = (IF r.err = Ok THEN r.evaluations ELSE <<r.err>>)
          /\ called' = (IF r.err = Ok THEN "eval" ELSE "panic")
    /\ UNCHANGED <<trace, flow, coefficients, debug, poly, z, cc, composition,
                   twiddles>>

CallEvalAt ==
    /\ called = "new"
    /\ returned' = <<eval_at(poly, z)>>
    /\ called' = "eval_at"
    /\ UNCHANGED <<trace, flow, coefficients, debug, poly, z, cc, composition,
                   twiddles>>

CallMergeInto ==
    /\ called = "new"
    /\ LET r == merge_into(poly, composition, z, cc)
       IN /\ poly' = r.poly
          /\ composition' = r.result
          /\ returned' = <<r.z_value>>
    /\ called' = "merge_into"
    /\ UNCHANGED <<trace, flow, coefficients, debug, z, cc, twiddles>>

NextPoly == CallNew \/ CallDegree \/ CallEval \/ CallEvalAt \/ CallMergeInto

SpecPoly == InitPoly /\ [][NextPoly]_vars


\* vocabulary of the ConstraintPoly properties
PolyStep(name) == called = "new" /\ called' = name

\* the sum of p[k] * x^k
RECURSIVE ValueAt(_, _, _)
ValueAt(p, x, k) ==
    IF k > Len(p) THEN 0
    ELSE (p[k] * f_exp(x, k - 1) + ValueAt(p, x, k + 1)) % FieldModulus

\* the coefficient vector of q(x) * (x - x0), one entry longer than q
TimesLinear(q, x0) ==
    [k \in 1..(Len(q) + 1) |->
        Diff((IF k > 1 THEN q[k - 1] ELSE 0),
             (x0 * (IF k <= Len(q) THEN q[k] ELSE 0)) % FieldModulus)]

\* p with v added to its constant coefficient
PlusConstant(p, v) == [p EXCEPT ![1] = (p[1] + v) % FieldModulus]

\* p with a zero coefficient added above its highest
Raised(p) == Append(p, 0)

\* ------------------------------------------------------------------------
\* C21: merge_into(result, z, cc) returns P(z), which is eval_at(z), and
\* changes result to result + cc.constraints * Q coefficient-wise, where Q
\* is the polynomial with Q(x) * (x - z) = P(x) - P(z); it changes nothing
\* else.
\* ------------------------------------------------------------------------
C21_MergeStep ==
    PolyStep("merge_into") =>
        LET value == ValueAt(poly, z, 1)
            added == [k \in 1..Len(composition) |->
                         Diff(composition'[k], composition[k])]
            scaled == [k \in 1..Len(poly) |-> (cc * poly[k]) % FieldModulus]
        IN /\ returned' = <<value>>
           /\ value = eval_at(poly, z)
           /\ Len(composition') = Len(composition)
           /\ TimesLinear(added, z) =
                 Raised(PlusConstant(scaled, FieldModulus * cc - cc * value))
           /\ UNCHANGED <<trace, flow, coefficients, debug, z, cc, twiddles>>

C21_Merge == [][C21_MergeStep]_vars

\* x^3 + 2x + 1 merged at z = 2 with cc = -1 into <<1, 2, 3, 4>>:
\* P(2) = 13 and Q = x^2 + 2x + 6
C21_Witness ==
    /\ called = "merge_into"
    /\ coefficients = <<1, 2, 0, 1>>
    /\ z = 2
    /\ cc = FieldModulus - 1
    /\ returned = <<13>>
    /\ composition = <<24, 0, 2, 4>>

\* ------------------------------------------------------------------------
\* C22: the quotient Q that merge_into forms from a polynomial P of a
\* power-of-two length and a point z satisfies Q(x) * (x - z) + P(z) = P(x)
\* as coefficient vectors: the division leaves no remainder.
\* ------------------------------------------------------------------------
C22_RoundTrip ==
    called = "merge_into" =>
        /\ IsPow2(Len(coefficients))
        /\ Len(poly) = Len(coefficients)
        /\ PlusConstant(TimesLinear(poly, z), returned[1]) = Raised(coefficients)

\* 2x^3 + x^2 + 2 divided at z = 1: P(1) = 5 and Q = 2x^2 + 3x + 3
C22_Witness ==
    /\ called = "merge_into"
    /\ coefficients = <<2, 0, 1, 2>>
    /\ z = 1
    /\ poly = <<3, 3, 2, 0>>

\* ------------------------------------------------------------------------
\* C23: ConstraintPoly::new rejects a vector whose length is not a power of
\* two; degree() of an accepted vector of length L is
\* L - L / MAX_CONSTRAINT_DEGREE (integer division); eval rejects a domain
\* of 2 * twiddles.len() points that is not strictly larger than L.
\* ------------------------------------------------------------------------
C23_NewStep ==
    (called = "" /\ called' # "" /\ ~IsPow2(Len(coefficients))) =>
        /\ called' = "panic"
        /\ returned' = <<BadPolyLength>>

C23_DegreeStep ==
    PolyStep("degree") =>
        /\ poly = coefficients
        /\ \E trace_len \in 0..Len(poly) :
              /\ trace_len * MAX_CONSTRAINT_DEGREE <= Len(poly)
              /\ Len(poly) < (trace_len + 1) * MAX_CONSTRAINT_DEGREE
              /\ returned' = <<Len(poly) - trace_len>>

C23_EvalStep ==
    (called = "new" /\ called' \in {"eval", "panic"} /\ 2 * twiddles <= Len(poly)) =>
        /\ called' = "panic"
        /\ returned' = <<BadDomainSize>>

C23_Shape == [][C23_NewStep /\ C23_DegreeStep /\ C23_EvalStep]_vars

\* a vector shorter than MAX_CONSTRAINT_DEGREE: the quotient is 0
C23_Witness ==
    /\ called = "degree"
    /\ Len(poly) = 1
    /\ returned = <<1>>

\* a vector of three coefficients is rejected
C23_WitnessLength ==
    /\ called = "panic"
    /\ Len(coefficients) = 3
    /\ returned = <<BadPolyLength>>

\* a domain of the length of the vector is rejected
C23_WitnessDomain ==
    /\ called = "panic"
    /\ Len(coefficients) = 4
    /\ twiddles = 2
    /\ returned = <<BadDomainSize>>

\* a domain larger than the vector is evaluated over
C23_WitnessEvaluated ==
    /\ called = "eval"
    /\ coefficients = <<1, 1>>
    /\ returned = <<2, 13, 0, 18>>


\* ========================================================================
\* The programs of processor/tests.rs, run by the trace builder
\* ========================================================================
\* opcodes::SUB, an opcode execute has no arm for
SUB == 27

\* the program of tests::stack_operations
stack_operations ==
    <<SWAP, SWAP2, SWAP4, OP_CHOOSE, ROLL4, DUP, PUSH, 11, ROLL8, DROP, SWAP2,
      CHOOSE2, DUP2, DUP4, DROP, NOOP>>

\* the program of tests::math_operations
math_operations ==
    <<ADD, MUL, SWAP, SUB, ADD, MUL, NOOP, NOOP, NOOP, NOOP, NOOP, NOOP, NOOP,
      NOOP, NOOP, NOOP>>

stack_inputs == <<7, 6, 5, 4, 3, 2, 1, 0>>
math_inputs == <<7, 6, 5, 4, 0, 1>>

\* The program execute accepts that runs the operations of ops: BEGIN, the
\* operations, and NOOPs up to the next power of two.
Framed(ops) ==
    [k \in 1..(2 * Len(ops)) |->
        IF k = 1 THEN BEGIN
        ELSE IF k <= Len(ops) + 1 THEN ops[k - 1] ELSE NOOP]

\* the inputs of a test, and the same with one value replaced
Varied(pub) ==
    {pub} \cup {[pub EXCEPT ![k] = v] : k \in 1..Len(pub), v \in 0..MaxInputValue}

\* Each test program, as the test has it and framed, on the inputs of the
\* tests.
InitScenario ==
    /\ program \in {stack_operations, math_operations,
                    Framed(stack_operations), Framed(math_operations)}
    /\ extension_factor = EXTENSION_FACTOR
    /\ public_inputs \in Varied(stack_inputs) \cup Varied(math_inputs)
    /\ secret_a = <<>>
    /\ secret_b = <<>>
    /\ NotStarted

\* the arms of execute that the operations of the tests reach
NextScenario ==
    \/ Validate
    \/ OpBegin \/ OpNoop \/ OpPush \/ OpDup \/ OpDup2 \/ OpDup4 \/ OpDrop
    \/ OpSwap \/ OpSwap2 \/ OpSwap4 \/ OpRoll4 \/ OpRoll8
    \/ OpChoose \/ OpChoose2 \/ OpAdd \/ OpMul \/ OpUnsupported
    \/ Finish

SpecScenario == InitScenario /\ [][NextScenario]_vars

\* the user-stack cell j of the last row of the trace
FinalCell(j) == Cell(j, trace_length - 1)

\* the operations of ops are run on the inputs pub
Runs(ops, pub) == program = Framed(ops) /\ public_inputs = pub

C27_MathOperations ==
    Runs(math_operations, math_inputs) =>
        /\ pc # "abort"
        /\ error # Unsupported
        /\ pc = "done" => FinalCell(0) = from_usize(61)

\* ------------------------------------------------------------------------
\* C28: for a program that passes validation and whose operations all meet
\* their preconditions, the columns execute returns have exactly
\* program_len rows and no row of index program_len or more is read or
\* written, a PUSH in the second-to-last slot included.
\* ------------------------------------------------------------------------
C28_RowsWithinProgram ==
    /\ error # IndexOutOfBounds
    /\ pc = "done" =>
          \A c \in 1..Len(registers) :
              DOMAIN registers[c] = 0..(trace_length - 1)

\* ------------------------------------------------------------------------
\* C29: enforce_begin leaves an all-zero result (op_flag = 1, result zero
\* before) only for transitions that lose no entry of the context stack: if
\* the deepest slot of the current context stack is nonzero, some entry of
\* the result is nonzero.
\* ------------------------------------------------------------------------
C29_NoLostContextStep ==
    (/\ FlowStep("begin")
     /\ FromZero
     /\ CtxDepth >= 1
     /\ current.ctx_stack[CtxDepth] # 0) => ~AllZero(result')

C29_NoLostContext == [][C29_NoLostContextStep]_vars

\* ------------------------------------------------------------------------
\* C30: with user[2] (gt) and user[3] (lt) both 0 before the first CMP,
\* after any number of CMP cycles both are 0 or 1 and never both 1, and
\* once either is 1 no later CMP cycle changes either: the first pair of
\* bits that differ decides the comparison.
\* ------------------------------------------------------------------------
C30_LatchStep ==
    (pc = "run" /\ i < CMP_CYCLES /\ Completes /\ i' = i + 1) =>
        LET gt == Cell(2, i)
            lt == Cell(3, i)
            a_bit == secret_a[i + 1]
            b_bit == secret_b[i + 1]
        IN /\ (gt = 1 \/ lt = 1) =>
                 /\ NewCell(2, i + 1) = gt
                 /\ NewCell(3, i + 1) = lt
           /\ (gt = 0 /\ lt = 0) =>
                 /\ NewCell(2, i + 1) = (IF a_bit > b_bit THEN 1 ELSE 0)
                 /\ NewCell(3, i + 1) = (IF a_bit < b_bit THEN 1 ELSE 0)

C30_WellFormed ==
    \A r \in 0..i :
        /\ Cell(2, r) \in {0, 1}
        /\ Cell(3, r) \in {0, 1}
        /\ ~(Cell(2, r) = 1 /\ Cell(3, r) = 1)

C30_Latch == [][C30_LatchStep]_vars /\ [](C30_WellFormed)

\* a > b decided by the first bits; the pairs that differ later, the other
\* way round, leave the latches as they are
C30_Witness ==
    /\ CmpDone
    /\ secret_a[1] = 1 /\ secret_b[1] = 0
    /\ secret_a[CMP_CYCLES - 1] = 0 /\ secret_b[CMP_CYCLES - 1] = 1
    /\ secret_a[CMP_CYCLES] = 0 /\ secret_b[CMP_CYCLES] = 1
    /\ Cell(2, 1) = 1 /\ Cell(3, 1) = 0
    /\ Cell(2, CMP_CYCLES) = 1 /\ Cell(3, CMP_CYCLES) = 0


\* ------------------------------------------------------------------------
\* C31: in every trace of the builder, aux[0] at row s is nonzero only if
\* the operation executed at step s is EQ, aux[1] is zero at every row, and
\* no operation other than EQ writes an aux cell.
\* ------------------------------------------------------------------------
C31_AuxRows ==
    Built =>
        /\ Len(aux_registers) = AUX_WIDTH
        /\ \A r \in 0..(trace_length - 1) :
              /\ AuxCell(0, r) # 0 => (r < Cycles /\ OpAt(r) = EQ)
              /\ AuxCell(1, r) = 0
        /\ pc = "done" =>
              \A k \in 1..AUX_WIDTH : registers[k] = aux_registers[k]

C31_AuxStep ==
    (Running /\ CurOp # EQ) => aux_registers' = aux_registers

C31_AuxOnlyEq == [][C31_AuxStep]_vars /\ [](C31_AuxRows)

\* an EQ of unequal values between two other operations: its row alone
\* has a nonzero aux[0]
C31_Witness ==
    /\ pc = "done"
    /\ executed = <<BEGIN, EQ, NOOP>>
    /\ Cell(0, 1) # Cell(1, 1)
    /\ AuxCell(0, 1) \notin {0, 1}
    /\ AuxCell(0, 0) = 0
    /\ AuxCell(0, 2) = 0
    /\ registers[1][1] = AuxCell(0, 1)


\* ========================================================================
\* The permuting operations, repeated (tests::swap .. tests::roll8)
\* ========================================================================
PermuteOps == {SWAP, SWAP2, SWAP4, ROLL4, ROLL8}

\* n values that differ from one another, counting up from start + 1
Counting(start, n) == [k \in 1..n |-> from_usize(start + k)]

\* one permuting operation, 2, 4 or 8 times in a row, on stacks of every
\* depth
InitPermute ==
    /\ program \in {Framed([k \in 1..n |-> op]) :
                       op \in PermuteOps, n \in {2, 4, 8}}
    /\ extension_factor = EXTENSION_FACTOR
    /\ \E start \in 0..MaxInputValue, np \in 0..MAX_USER_STACK_DEPTH :
          public_inputs = Counting(start, np)
    /\ secret_a = <<>>
    /\ secret_b = <<>>
    /\ NotStarted

NextPermute ==
    \/ Validate
    \/ OpBegin \/ OpNoop
    \/ OpSwap \/ OpSwap2 \/ OpSwap4 \/ OpRoll4 \/ OpRoll8
    \/ Finish

SpecPermute == InitPermute /\ [][NextPermute]_vars

\* the number of cells op permutes
Width(op) ==
    CASE op = SWAP -> 2
      [] op = SWAP2 -> 4
      [] op = SWAP4 -> 8
      [] op = ROLL4 -> 4
      [] op = ROLL8 -> 8

\* the cell of the current row whose value op leaves in cell j < Width(op)
Origin(op, j) ==
    CASE op = SWAP -> 1 - j
      [] op = SWAP2 -> (j + 2) % 4
      [] op = SWAP4 -> (j + 4) % 8
      [] op = ROLL4 -> (j + 3) % 4
      [] op = ROLL8 -> (j + 7) % 8

\* how many applications of op restore the stack
Period(op) ==
    CASE op \in {SWAP, SWAP2, SWAP4} -> 2
      [] op = ROLL4 -> 4
      [] op = ROLL8 -> 8

\* ------------------------------------------------------------------------
\* C32: SWAP, SWAP2, SWAP4, ROLL4 and ROLL8 permute the top 2, 4, 8, 4 and
\* 8 user cells (SWAP exchanges cells 0 and 1, SWAP2 the pairs (0,1) and
\* (2,3), SWAP4 the quads (0..3) and (4..7); ROLL4 and ROLL8 move the 4th
\* and the 8th cell to the top and the others down by one) and leave the
\* deeper cells, depth and max_depth unchanged; SWAP, SWAP2 or SWAP4
\* twice, ROLL4 four times and ROLL8 eight times restore the stack.
\* ------------------------------------------------------------------------
C32_PermuteStep ==
    (Running /\ CurOp \in PermuteOps /\ depth >= Width(CurOp)) =>
        /\ Completes
        /\ i' = i + 1
        /\ Len(user_registers') = Len(user_registers)
        /\ \A j \in 0..(Len(user_registers) - 1) :
              NewCell(j, i + 1) =
                  (IF j < Width(CurOp) THEN Cell(Origin(CurOp, j), i)
                   ELSE Cell(j, i))
        /\ depth' = depth
        /\ max_depth' = max_depth

C32_Restored ==
    Built =>
        \A op \in PermuteOps :
        \A c \in 0..(Cycles - Period(op)) :
            (\A d \in c..(c + Period(op) - 1) : OpAt(d) = op) =>
                \A j \in 0..(Len(user_registers) - 1) :
                    Cell(j, c + Period(op)) = Cell(j, c)

C32_Permutations == [][C32_PermuteStep]_vars /\ [](C32_Restored)

\* eight ROLL8 on 1..8: the first brings 8 to the top, the eighth 1
C32_Witness ==
    /\ pc = "done"
    /\ program = Framed([k \in 1..8 |-> ROLL8])
    /\ public_inputs = Counting(0, 8)
    /\ Cell(0, 2) = 8
    /\ Cell(1, 2) = 1
    /\ Cell(0, 9) = 1
    /\ Cell(7, 9) = 8

\* two SWAP4 on 1..9: the ninth cell stays where it is
C32_WitnessDeeper ==
    /\ pc = "done"
    /\ program = Framed([k \in 1..2 |-> SWAP4])
    /\ public_inputs = Counting(0, 9)
    /\ Cell(0, 2) = 5
    /\ Cell(4, 2) = 1
    /\ Cell(8, 2) = 9
    /\ Cell(0, 3) = 1


\* ------------------------------------------------------------------------
\* C33: ASSERT on a stack of depth >= 1 aborts the execution unless
\* old[0] = 1; when old[0] = 1 it removes the top cell (next[j] = old[j+1],
\* the vacated bottom cell zero), depth falls by one and max_depth stays.
\* ------------------------------------------------------------------------
C33_AssertStep ==
    (Running /\ CurOp = ASSERT /\ depth >= 1) =>
        IF Cell(0, i) # 1
        THEN AbortsWith(AssertFailed)
        ELSE /\ Completes
             /\ i' = i + 1
             /\ \A j \in 0..(depth - 2) : NewCell(j, i + 1) = Cell(j + 1, i)
             /\ NewCell(depth - 1, i + 1) = 0
             /\ depth' = depth - 1
             /\ max_depth' = max_depth

C33_Aborted ==
    (pc = "abort" /\ error = AssertFailed) =>
        /\ i < Len(program)
        /\ as_u8(Slot(i)) = ASSERT
        /\ Cell(0, i) # 1
        /\ registers = <<>>

C33_Assert == [][C33_AssertStep]_vars /\ [](C33_Aborted)

\* ASSERT on 1, 2, 0: the cells below the 1 move up
C33_Witness ==
    /\ pc = "done"
    /\ executed = <<BEGIN, ASSERT, NOOP>>
    /\ public_inputs = <<1, 2, 0>>
    /\ Cell(0, 2) = 2
    /\ Cell(1, 2) = 0
    /\ Cell(2, 2) = 0
    /\ depth = 2
    /\ max_depth = 3

\* ASSERT on a top cell of 2
C33_WitnessFailed ==
    /\ pc = "abort"
    /\ error = AssertFailed
    /\ executed = <<BEGIN>>
    /\ Cell(0, 1) = 2


\* ------------------------------------------------------------------------
\* C34: HASHR on a stack of depth >= 6 replaces user[0..6] in the next row
\* by one round of the sponge permutation of the current user[0..6], the
\* round index being the current step, and leaves the cells from index 6
\* on, depth, max_depth and the aux registers unchanged; the new cells are
\* a function of those six cells and of the step alone.
\* ------------------------------------------------------------------------
C34_HashrStep ==
    (Running /\ CurOp = HASHR /\ depth >= HASH_STATE_WIDTH) =>
        LET round == apply_round([k \in 1..HASH_STATE_WIDTH |-> Cell(k - 1, i)], i)
        IN /\ Completes
           /\ i' = i + 1
           /\ \A k \in 0..(HASH_STATE_WIDTH - 1) : NewCell(k, i + 1) = round[k + 1]
           /\ Len(user_registers') = Len(user_registers)
           /\ \A j \in HASH_STATE_WIDTH..(Len(user_registers) - 1) :
                 NewCell(j, i + 1) = Cell(j, i)
           /\ \A j \in 0..(Len(user_registers) - 1) :
              \A r \in 0..i : NewCell(j, r) = Cell(j, r)
           /\ depth' = depth
           /\ max_depth' = max_depth
           /\ aux_registers' = aux_registers

C34_Hashr == [][C34_HashrStep]_vars

\* HASHR at step 1 on 1, 2, 0, 1, 2, 0, 1: the seventh cell stays
C34_Witness ==
    /\ pc = "done"
    /\ executed = <<BEGIN, HASHR, NOOP>>
    /\ public_inputs = <<1, 2, 0, 1, 2, 0, 1>>
    /\ Cell(0, 2) = 5
    /\ Cell(1, 2) = 14
    /\ Cell(6, 2) = 1
    /\ depth = 7


\* ------------------------------------------------------------------------
\* execute, run to its end: a call that can take a step takes it
\* ------------------------------------------------------------------------
\* every operation, supported or not, in the first slot after BEGIN, followed
\* by a NOOP or by a PUSH in the second-to-last slot, on an empty and on a
\* full-width stack, with no and with MaxSecretLen pairs of secret inputs
InitLive ==
    /\ program \in {<<BEGIN, NOOP>>} \cup
                   {<<BEGIN, op, x, NOOP>> : op \in Field, x \in {NOOP, PUSH}}
    /\ extension_factor = EXTENSION_FACTOR
    /\ \E np \in {0, MIN_USER_STACK_DEPTH}, ns \in {0, MaxSecretLen} :
          /\ public_inputs = Ramp(1, np)
          /\ secret_a = Ramp(0, ns)
          /\ secret_b = Ramp(1, ns)
    /\ NotStarted

SpecLive == InitLive /\ [][Next]_vars /\ WF_vars(Next)

Ended == pc \in {"done", "abort"}

\* ------------------------------------------------------------------------
\* C35: the trace builder always terminates: every loop iteration raises
\* the step index (by 1, or by 2 for PUSH) or aborts, so for a program of
\* length n the loop runs at most n - 1 iterations, and execute ends by
\* returning the trace or by aborting on a failed check.
\* ------------------------------------------------------------------------
C35_LoopStep ==
    Running =>
        \/ /\ pc' = "run"
           /\ i' = i + (IF CurOp = PUSH THEN 2 ELSE 1)
           /\ Cycles' = i'
        \/ /\ pc' = "abort"
           /\ error' # Ok
           /\ i' = i

C35_EndStep ==
    Ended => (pc' = pc /\ i' = i /\ registers' = registers /\ error' = error)

C35_Bounded ==
    /\ pc = "run" => (Cycles = i /\ i <= trace_length - 1)
    /\ pc = "done" => (error = Ok /\ i = trace_length - 1 /\ registers # <<>>)
    /\ pc = "abort" => (error # Ok /\ registers = <<>>)

C35_Terminates ==
    /\ [][C35_LoopStep /\ C35_EndStep]_vars
    /\ [](C35_Bounded)
    /\ <>Ended

\* a run of two iterations over three steps, the PUSH counting for two
C35_Witness ==
    /\ pc = "done"
    /\ program = <<BEGIN, PUSH, PUSH, NOOP>>
    /\ i = 3
    /\ executed = <<BEGIN, PUSH, NOOP>>

=============================================================================
